---- MODULE Spec2Model ----
(***************************************************************************)
(* A model of the SFTP server of sftp_cloud_connector: the path jail       *)
(* (sftp_server.py _normalize_posix / _resolve_local_path), the SFTP       *)
(* verbs acting on a shared filesystem, the credential verifier            *)
(* (services.py authenticate, security.py verify_password) and the         *)
(* session supervisor with its telemetry (handle_client, start_connection, *)
(* end_connection).                                                        *)
(*                                                                         *)
(* Strings are sequences of one-character strings, so that the character   *)
(* level tests of the code (path[1] == ':', split on '/') are modelled as  *)
(* the code makes them.  Host paths are sequences of segments, the root    *)
(* directory being the empty sequence.                                     *)
(***************************************************************************)
EXTENDS Integers, Sequences, FiniteSets, TLC

\* -------------------------------------------------------------------------
\* Bounds of the model
\* -------------------------------------------------------------------------

\* longest virtual path string drawn as an input of the path functions
MaxLen == 4

\* the characters the input strings are drawn from
Alphabet == {"/", "\\", ".", ":", "a"}

\* an optional value is Nothing or Some(x)
Nothing == <<>>
Some(x) == <<x>>

\* -------------------------------------------------------------------------
\* Strings
\* -------------------------------------------------------------------------

RECURSIVE StringsOfLen(_)
StringsOfLen(n) ==
    IF n = 0 THEN {<<>>}
    ELSE {Append(s, c) : s \in StringsOfLen(n - 1), c \in Alphabet}

StringsUpTo(n) == UNION {StringsOfLen(k) : k \in 0..n}

\* str.replace('\\', '/')
ReplaceBackslash(s) == [i \in 1..Len(s) |-> IF s[i] = "\\" THEN "/" ELSE s[i]]

\* str.split('/'): the segments between the separators, empty ones included
RECURSIVE SplitFrom(_, _, _)
SplitFrom(s, i, cur) ==
    IF i > Len(s) THEN <<cur>>
    ELSE IF s[i] = "/" THEN <<cur>> \o SplitFrom(s, i + 1, <<>>)
    ELSE SplitFrom(s, i + 1, Append(cur, s[i]))

Split(s) == SplitFrom(s, 1, <<>>)

\* '/'.join(parts)
RECURSIVE Join(_)
Join(parts) ==
    IF parts = <<>> THEN <<>>
    ELSE IF Len(parts) = 1 THEN parts[1]
    ELSE parts[1] \o <<"/">> \o Join(Tail(parts))

\* str.strip('/')
RECURSIVE LStrip(_)
LStrip(s) == IF s # <<>> /\ Head(s) = "/" THEN LStrip(Tail(s)) ELSE s

RECURSIVE RStrip(_)
RStrip(s) ==
    IF s # <<>> /\ s[Len(s)] = "/" THEN RStrip(SubSeq(s, 1, Len(s) - 1)) ELSE s

Strip(s) == RStrip(LStrip(s))

Dot == <<".">>
DotDot == <<".", ".">>

\* -------------------------------------------------------------------------
\* Path Jail, part 1: _normalize_posix and canonicalize
\* -------------------------------------------------------------------------

\* a mutant of FoldParts: '..' with nothing to pop is kept as a segment
RECURSIVE FoldPartsKeepDotDot(_, _)
FoldPartsKeepDotDot(segs, parts) ==
    IF segs = <<>> THEN parts
    ELSE LET part == Head(segs) IN
         IF part = <<>> \/ part = Dot THEN FoldPartsKeepDotDot(Tail(segs), parts)
         ELSE IF part = DotDot /\ parts # <<>>
              THEN FoldPartsKeepDotDot(Tail(segs), SubSeq(parts, 1, Len(parts) - 1))
              ELSE FoldPartsKeepDotDot(Tail(segs), Append(parts, part))

\* a mutant of FoldParts: '..' is kept like any other segment
RECURSIVE FoldPartsNoPop(_, _)
FoldPartsNoPop(segs, parts) ==
    IF segs = <<>> THEN parts
    ELSE LET part == Head(segs) IN
         IF part = <<>> \/ part = Dot THEN FoldPartsNoPop(Tail(segs), parts)
         ELSE FoldPartsNoPop(Tail(segs), Append(parts, part))

\* the loop over path.split('/') of _normalize_posix: '' and '.' are skipped,
\* '..' pops the last kept part if there is one, anything else is kept
RECURSIVE FoldParts(_, _)
FoldParts(segs, parts) ==
    IF segs = <<>> THEN parts
    ELSE LET part == Head(segs) IN
         IF part = <<>> \/ part = Dot THEN FoldParts(Tail(segs), parts)
         ELSE IF part = DotDot
              THEN FoldParts(Tail(segs),
                             IF parts # <<>> THEN SubSeq(parts, 1, Len(parts) - 1)
                                             ELSE parts)
              ELSE FoldParts(Tail(segs), Append(parts, part))

\* the kept parts of a path string whose separators are already '/'
KeptParts(path) == FoldParts(Split(path), <<>>)

\* if len(path) >= 2 and path[1] == ':': path = path[2:]
StripDrive(path) ==
    IF Len(path) >= 2 /\ path[2] = ":" THEN SubSeq(path, 3, Len(path)) ELSE path

\* if not path.startswith('/'): path = '/' + path
EnsureLeadingSlash(path) ==
    IF path # <<>> /\ Head(path) = "/" THEN path ELSE <<"/">> \o path

normalize_posix(path) ==
    IF path = <<>> \/ path = Dot THEN <<"/">>
    ELSE LET parts == KeptParts(EnsureLeadingSlash(StripDrive(ReplaceBackslash(path))))
         IN IF parts # <<>> THEN <<"/">> \o Join(parts) ELSE <<"/">>

canonicalize(path) == normalize_posix(path)

\* -------------------------------------------------------------------------
\* The host filesystem
\* -------------------------------------------------------------------------
\* A host path is a sequence of segments (each a string); the filesystem is
\* a function from the host paths that exist to their nodes.  The root
\* directory <<>> always exists.

DirNode == [kind |-> "dir", target |-> <<>>]
FileNode == [kind |-> "file", target |-> <<>>]
LinkNode(t) == [kind |-> "link", target |-> t]

\* symbolic links followed in one resolution before it is given up as a loop
MaxLinkHops == 3

Exists(f, p) == p = <<>> \/ p \in DOMAIN f
KindOf(f, p) == IF p = <<>> THEN "dir" ELSE IF p \in DOMAIN f THEN f[p].kind ELSE "none"
IsDir(f, p) == KindOf(f, p) = "dir"
IsLink(f, p) == KindOf(f, p) = "link"

Parent(p) == SubSeq(p, 1, Len(p) - 1)
Last(p) == p[Len(p)]

\* PurePath.relative_to: q is p itself or lies under p, compared segment by segment
IsUnder(q, p) == Len(q) >= Len(p) /\ SubSeq(q, 1, Len(p)) = p

Children(f, p) == {q \in DOMAIN f : Len(q) = Len(p) + 1 /\ Parent(q) = p}

\* Path.resolve() (os.path.realpath, not strict): every symbolic link met on
\* the way is followed, '.' is dropped and '..' goes up to the parent (the
\* root being its own); what does not exist is kept as written
RECURSIVE RealpathFrom(_, _, _, _)
RealpathFrom(f, done, rest, fuel) ==
    IF rest = <<>> THEN done
    ELSE LET next == Append(done, Head(rest)) IN
         IF Head(rest) \in {<<>>, Dot} THEN RealpathFrom(f, done, Tail(rest), fuel)
         ELSE IF Head(rest) = DotDot
         THEN RealpathFrom(f, IF done = <<>> THEN done ELSE SubSeq(done, 1, Len(done) - 1),
                           Tail(rest), fuel)
         ELSE IF IsLink(f, next)
         THEN IF fuel = 0 THEN <<<<"ELOOP">>>>
              ELSE RealpathFrom(f, <<>>, f[next].target \o Tail(rest), fuel - 1)
         ELSE RealpathFrom(f, next, Tail(rest), fuel)

Realpath(f, p) == RealpathFrom(f, <<>>, p, MaxLinkHops)

\* How the kernel finds the entry a host path names: the links in the
\* intermediate segments are followed, the one in the last segment only if
\* followLast.  err is "" and loc the place of the entry (which may not
\* exist, its parent then being a directory), or err says what failed.
RECURSIVE LocateFrom(_, _, _, _, _)
LocateFrom(f, done, rest, followLast, fuel) ==
    IF rest = <<>> THEN [err |-> "", loc |-> done]
    ELSE LET next == Append(done, Head(rest)) IN
         IF ~IsDir(f, done)
         THEN [err |-> IF Exists(f, done) THEN "ENOTDIR" ELSE "ENOENT", loc |-> next]
         ELSE IF IsLink(f, next) /\ (Len(rest) > 1 \/ followLast)
              THEN IF fuel = 0 THEN [err |-> "ELOOP", loc |-> next]
                   ELSE LocateFrom(f, <<>>, f[next].target \o Tail(rest), followLast, fuel - 1)
              ELSE LocateFrom(f, next, Tail(rest), followLast, fuel)

Locate(f, p, followLast) == LocateFrom(f, <<>>, p, followLast, MaxLinkHops)

\* the entry is there: os.stat (follow) or os.lstat (not follow) succeeds
Found(f, p, followLast) ==
    LET l == Locate(f, p, followLast) IN l.err = "" /\ Exists(f, l.loc)

Without(f, gone) == [q \in DOMAIN f \ gone |-> f[q]]

\* the result of a system call: ok or not, the filesystem after it, and the
\* places it acted on
SysFail(f) == [ok |-> FALSE, fs |-> f, at |-> {}]
SysOk(f, at) == [ok |-> TRUE, fs |-> f, at |-> at]

\* os.mkdir
OsMkdir(f, p) ==
    LET l == Locate(f, p, FALSE) IN
    IF l.err = "" /\ ~Exists(f, l.loc)
    THEN SysOk(f @@ (l.loc :> DirNode), {l.loc})
    ELSE SysFail(f)

\* Path.mkdir(parents=True, exist_ok=True): a missing parent is made first;
\* any other failure is forgiven when the path is a directory
RECURSIVE MkdirParents(_, _)
MkdirParents(f, p) ==
    LET l == Locate(f, p, FALSE) IN
    IF l.err = "" /\ ~Exists(f, l.loc) THEN OsMkdir(f, p)
    ELSE IF l.err = "ENOENT"
         THEN IF p = <<>> THEN SysFail(f)
              ELSE LET up == MkdirParents(f, Parent(p)) IN
                   IF ~up.ok THEN up
                   ELSE LET made == OsMkdir(up.fs, p) IN
                        IF made.ok THEN SysOk(made.fs, up.at \cup made.at)
                        ELSE IF Found(up.fs, p, TRUE) /\ IsDir(up.fs, Locate(up.fs, p, TRUE).loc)
                             THEN SysOk(up.fs, up.at)
                             ELSE SysFail(up.fs)
         ELSE IF Found(f, p, TRUE) /\ IsDir(f, Locate(f, p, TRUE).loc)
              THEN SysOk(f, {Locate(f, p, TRUE).loc})
              ELSE SysFail(f)

\* Path.touch(): the file is made if it is not there
OsTouch(f, p) ==
    LET l == Locate(f, p, TRUE) IN
    IF l.err # "" THEN SysFail(f)
    ELSE IF Exists(f, l.loc) THEN SysOk(f, {l.loc})
    ELSE SysOk(f @@ (l.loc :> FileNode), {l.loc})

\* the builtin open(local_path, mode): a directory cannot be opened, a
\* missing file is made by the w and a modes only
OsOpen(f, p, mode) ==
    LET l == Locate(f, p, TRUE) IN
    IF l.err # "" THEN SysFail(f)
    ELSE IF Exists(f, l.loc)
         THEN IF KindOf(f, l.loc) = "file" THEN SysOk(f, {l.loc}) ELSE SysFail(f)
         ELSE IF mode \in {"wb", "ab", "a+b"}
              THEN SysOk(f @@ (l.loc :> FileNode), {l.loc})
              ELSE SysFail(f)

\* os.unlink: files and links, never a directory
OsUnlink(f, p) ==
    LET l == Locate(f, p, FALSE) IN
    IF l.err = "" /\ KindOf(f, l.loc) \in {"file", "link"}
    THEN SysOk(Without(f, {l.loc}), {l.loc})
    ELSE SysFail(f)

\* os.rmdir: an empty directory
OsRmdir(f, p) ==
    LET l == Locate(f, p, FALSE) IN
    IF l.err = "" /\ l.loc # <<>> /\ l.loc \in DOMAIN f /\ IsDir(f, l.loc)
       /\ Children(f, l.loc) = {}
    THEN SysOk(Without(f, {l.loc}), {l.loc})
    ELSE SysFail(f)

\* os.rename: the entry and all below it move; an existing target is
\* replaced when it is a file (by a file or link) or an empty directory (by
\* a directory)
OsRename(f, old, new) ==
    LET lo == Locate(f, old, FALSE)
        ln == Locate(f, new, FALSE)
        src == lo.loc
        dst == ln.loc
        moved == {q \in DOMAIN f : IsUnder(q, src)}
        Moved(q) == dst \o SubSeq(q, Len(src) + 1, Len(q))
        after == [q \in ((DOMAIN f \ moved) \ {dst}) \cup {Moved(q) : q \in moved} |->
                    IF \E m \in moved : Moved(m) = q
                    THEN f[CHOOSE m \in moved : Moved(m) = q]
                    ELSE f[q]]
    IN IF lo.err # "" \/ ln.err # "" \/ src = <<>> \/ dst = <<>> \/ src \notin DOMAIN f
       THEN SysFail(f)
       ELSE IF src = dst THEN SysOk(f, {src, dst})
       ELSE IF IsDir(f, src)
            THEN IF IsUnder(dst, src) THEN SysFail(f)
                 ELSE IF Exists(f, dst) /\ ~(IsDir(f, dst) /\ Children(f, dst) = {})
                      THEN SysFail(f)
                      ELSE SysOk(after, {src, dst})
            ELSE IF Exists(f, dst) /\ IsDir(f, dst) THEN SysFail(f)
                 ELSE SysOk(after, {src, dst})

\* os.chmod / os.utime: the entry must be there (links are followed)
OsChange(f, p) ==
    LET l == Locate(f, p, TRUE) IN
    IF l.err = "" /\ Exists(f, l.loc) THEN SysOk(f, {l.loc}) ELSE SysFail(f)

\* PurePath parsing of a relative string: its segments without '' and '.'
PathParts(s) == SelectSeq(Split(s), LAMBDA seg : seg # <<>> /\ seg # Dot)

\* -------------------------------------------------------------------------
\* Path Jail, part 2: _resolve_local_path
\* -------------------------------------------------------------------------

\* a mutant of resolve_local_path: the jail check is made on the joined path,
\* before the symbolic links are resolved
resolve_unresolved_check(f, user_root, path) ==
    LET normalized == normalize_posix(path)
        joined == user_root \o PathParts(Strip(normalized))
    IN [ok |-> IsUnder(joined, user_root),
        normalized |-> normalized,
        local_path |-> Realpath(f, joined)]

\* ok = FALSE stands for the PermissionError ("Path escapes root")
resolve_local_path(f, user_root, path) ==
    LET normalized == normalize_posix(path)
        rel_path == Strip(normalized)
        local_path == Realpath(f, user_root \o PathParts(rel_path))
    IN [ok |-> IsUnder(local_path, user_root),
        normalized |-> normalized,
        local_path |-> local_path]

\* -------------------------------------------------------------------------
\* SFTP verbs: what each does once its path passed the jail
\* -------------------------------------------------------------------------
\* A verb's handler first resolves its path(s) (the jail check) and then acts
\* on the host path it got, through system calls that find the entry again
\* in the filesystem as it is at that moment.

Successes == {"OK", "ATTRS", "ENTRIES", "HANDLE"}
Statuses == Successes \cup {"NO_SUCH_FILE", "PERMISSION_DENIED", "FAILURE"}

Reply(status, sys, handle) ==
    [status |-> status, fs |-> sys.fs, at |-> sys.at, handle |-> handle]

\* _stat_attributes: any OSError is answered NO_SUCH_FILE
stat_attributes(f, local_path, follow_symlinks) ==
    LET l == Locate(f, local_path, follow_symlinks) IN
    IF l.err = "" /\ Exists(f, l.loc)
    THEN Reply("ATTRS", SysOk(f, {l.loc}), Nothing)
    ELSE Reply("NO_SUCH_FILE", SysFail(f), Nothing)

\* list_folder after the jail check
list_folder_act(f, local_path) ==
    LET l == Locate(f, local_path, TRUE) IN
    IF ~(l.err = "" /\ Exists(f, l.loc) /\ IsDir(f, l.loc))
    THEN Reply("NO_SUCH_FILE", SysFail(f), Nothing)
    ELSE IF \E item \in Children(f, l.loc) : ~Found(f, item, TRUE)
         THEN Reply("FAILURE", SysFail(f), Nothing)
         ELSE Reply("ENTRIES", SysOk(f, {l.loc}), Nothing)

\* the mode of open without its test of O_APPEND
OpenModeNoAppend(flags) ==
    IF "O_WRONLY" \in flags THEN "wb"
    ELSE IF "O_RDWR" \in flags THEN "r+b"
    ELSE "rb"

\* flags are the set of the O_ bits that are set (O_RDONLY is no bit)
OpenMode(flags) ==
    IF "O_WRONLY" \in flags THEN (IF "O_APPEND" \in flags THEN "ab" ELSE "wb")
    ELSE IF "O_RDWR" \in flags THEN (IF "O_APPEND" \in flags THEN "a+b" ELSE "r+b")
    ELSE "rb"

\* the _CountingIO of an open file: the path is the canonical virtual path
Handle(normalized, mode) ==
    [path |-> normalized, mode |-> mode,
     readfile |-> mode \in {"rb", "r+b", "a+b"},
     writefile |-> mode \in {"wb", "ab", "a+b", "r+b"}]

\* open after the jail check: every OSError is answered PERMISSION_DENIED,
\* and what was made before the error stays
open_act(f, normalized, local_path, flags) ==
    LET dirs == MkdirParents(f, Parent(local_path))
        mode == OpenMode(flags)
        made == IF "O_CREAT" \in flags /\ ~Found(dirs.fs, local_path, TRUE)
                THEN OsTouch(dirs.fs, local_path)
                ELSE SysOk(dirs.fs, {})
        file == OsOpen(made.fs, local_path, mode)
    IN IF ~dirs.ok THEN Reply("PERMISSION_DENIED", SysFail(dirs.fs), Nothing)
       ELSE IF ~made.ok THEN Reply("PERMISSION_DENIED", SysFail(made.fs), Nothing)
       ELSE IF ~file.ok THEN Reply("PERMISSION_DENIED", SysFail(file.fs), Nothing)
       ELSE Reply("HANDLE", SysOk(file.fs, dirs.at \cup made.at \cup file.at),
                  Some(Handle(normalized, mode)))

\* remove, rename, mkdir, rmdir after the jail check: OK, or FAILURE on any OSError
Status(sys) == Reply(IF sys.ok THEN "OK" ELSE "FAILURE", sys, Nothing)

\* chattr after the jail check; attr is the set of the attributes given
chattr_act(f, local_path, attr) ==
    IF attr \cap {"st_mode", "st_atime", "st_mtime"} = {} THEN Status(SysOk(f, {}))
    ELSE Status(OsChange(f, local_path))

\* the verb of a pending operation acts on the filesystem f
VerbAct(f, op) ==
    CASE op.verb = "stat" -> stat_attributes(f, op.local, TRUE)
      [] op.verb = "lstat" -> stat_attributes(f, op.local, FALSE)
      [] op.verb = "list" -> list_folder_act(f, op.local)
      [] op.verb = "open" -> open_act(f, op.normalized, op.local, op.flags)
      [] op.verb = "remove" -> Status(OsUnlink(f, op.local))
      [] op.verb = "rename" -> Status(OsRename(f, op.local, op.local2))
      [] op.verb = "mkdir" -> Status(OsMkdir(f, op.local))
      [] op.verb = "rmdir" -> Status(OsRmdir(f, op.local))
      [] op.verb = "setattr" -> chattr_act(f, op.local, op.flags)

Verbs == {"stat", "lstat", "list", "open", "remove", "rename", "mkdir", "rmdir", "setattr"}

\* a request of the client: the verb, its path, the second path of rename,
\* and the open flags (for setattr, the attributes given)
Req(verb, path, path2, flags) ==
    [verb |-> verb, path |-> path, path2 |-> path2, flags |-> flags]

\* -------------------------------------------------------------------------
\* Filesystems and homes the path functions are exercised on
\* -------------------------------------------------------------------------

\* segments (a segment is a string, as Split makes them)
sR == <<"r">>
sAlice == <<"a", "l", "i", "c", "e">>
sAlice2 == <<"a", "l", "i", "c", "e", "2">>
sO == <<"o">>
sA == <<"a">>
sB == <<"b">>
sEtc == <<"e", "t", "c">>
sPasswd == <<"p", "a", "s", "s", "w", "d">>
sAA == <<"a", "a">>
sAdmin == <<"a", "d", "m", "i", "n">>

SFTP_ROOT == <<sR>>
AliceHome == <<sR, sAlice>>
Outside == <<sO>>

BaseFs == (SFTP_ROOT :> DirNode) @@ (AliceHome :> DirNode) @@ (Outside :> DirNode)

\* the home holds: a plain directory; a link to a directory outside; a
\* directory with a link to the shared root in it; a link to a sibling of
\* the home whose name starts like the home's (alice2); a dangling link that stays
\* inside the home
JailSetups ==
    { BaseFs @@ (<<sR, sAlice, sA>> :> DirNode),
      BaseFs @@ (<<sR, sAlice, sA>> :> LinkNode(Outside)),
      BaseFs @@ (<<sR, sAlice, sA>> :> DirNode)
             @@ (<<sR, sAlice, sA, sA>> :> LinkNode(SFTP_ROOT)),
      BaseFs @@ (<<sR, sAlice2>> :> DirNode)
             @@ (<<sR, sAlice, sA>> :> LinkNode(<<sR, sAlice2>>)),
      BaseFs @@ (<<sR, sAlice, sA>> :> LinkNode(<<sR, sAlice, sAA>>)) }

\* the filesystem the sessions start on: Alice's home holds a directory a
\* with a file a in it and a directory b with a link a to the directory o
\* outside the shared root; the default admin has its home; the host has
\* its /etc/passwd
HomeFs ==
    BaseFs @@ (<<sR, sAdmin>> :> DirNode)
           @@ (<<sR, sAlice, sA>> :> DirNode)
           @@ (<<sR, sAlice, sA, sA>> :> FileNode)
           @@ (<<sR, sAlice, sB>> :> DirNode)
           @@ (<<sR, sAlice, sB, sA>> :> LinkNode(Outside))
           @@ (<<sEtc>> :> DirNode)
           @@ (<<sEtc, sPasswd>> :> FileNode)

\* -------------------------------------------------------------------------
\* The user store and the credential verifier
\* -------------------------------------------------------------------------

uAlice == sAlice
uBob == <<"b", "o", "b">>
uCarol == <<"c", "a", "r", "o", "l">>
uDave == <<"d", "a", "v", "e">>
uMallory == <<"m", "a", "l", "l", "o", "r", "y">>

GoodPassword == "Passw0rd!"
WrongPassword == "letmein"

\* hash_password: a salted bcrypt hash, told apart only by the password it
\* was made from
hash_password(password) == <<"$2b$", password>>

User(id, name, hash, active) ==
    [id |-> id, username |-> name, password_hash |-> hash, role |-> "user",
     is_active |-> active, home_dir |-> name, last_login |-> 0]

\* str.strip(): the blanks at both ends are dropped
RECURSIVE LTrim(_)
LTrim(s) == IF s # <<>> /\ Head(s) = " " THEN LTrim(Tail(s)) ELSE s

RECURSIVE RTrim(_)
RTrim(s) ==
    IF s # <<>> /\ s[Len(s)] = " " THEN RTrim(SubSeq(s, 1, Len(s) - 1)) ELSE s

Trim(s) == RTrim(LTrim(s))

\* _sanitize_home_dir: home_dir is Nothing (None) or Some(string); None and
\* the empty string give way to the fallback; the segments '', '.' and '..'
\* are dropped, and when none is left the fallback is returned as it is
sanitize_home_dir(home_dir, fallback) ==
    LET given == IF home_dir = Nothing \/ home_dir[1] = <<>> THEN fallback ELSE home_dir[1]
        value == ReplaceBackslash(Trim(given))
        parts == SelectSeq(Split(value), LAMBDA seg : seg \notin {<<>>, Dot, DotDot})
    IN IF Join(parts) = <<>> THEN fallback ELSE Join(parts)

\* self.root / Path(home_dir): an absolute home_dir replaces the root
HomeJoin(home_dir) ==
    IF home_dir # <<>> /\ Head(home_dir) = "/" THEN PathParts(home_dir)
    ELSE SFTP_ROOT \o PathParts(home_dir)

\* _ensure_home_directory: the ValueError of relative_to or the OSError of
\* mkdir (ok FALSE), else the directory is there
ensure_home_directory(f, home_dir) ==
    LET target == Realpath(f, HomeJoin(home_dir)) IN
    IF ~IsUnder(target, SFTP_ROOT) THEN [ok |-> FALSE, fs |-> f]
    ELSE LET made == MkdirParents(f, target) IN [ok |-> made.ok, fs |-> made.fs]

\* settings.admin_default_username and settings.admin_default_password
uAdmin == sAdmin
AdminDefaultPassword == "ChangeMe123!"

\* the _id the store gives to the next document inserted
NextId(store) == Cardinality(DOMAIN store) + 1

\* the document ensure_default_admin inserts
DefaultAdmin(store) ==
    [id |-> NextId(store), username |-> uAdmin,
     password_hash |-> hash_password(AdminDefaultPassword), role |-> "admin",
     is_active |-> TRUE, home_dir |-> sanitize_home_dir(Some(uAdmin), uAdmin), last_login |-> 0]

\* len(password) >= 8 for the passwords the model uses
LongEnough(password) == password \in {GoodPassword, AdminDefaultPassword}

\* create_user: ok is FALSE for a ValueError (password, role, home outside
\* the root), for the OSError of mkdir and for the DuplicateKeyError of the
\* unique index on username; the home directory is made before the insert
create_user(store, f, username, password, role, home_dir, is_active) ==
    LET sanitized_home == sanitize_home_dir(home_dir, username)
        home == ensure_home_directory(f, sanitized_home)
        document == [id |-> NextId(store), username |-> username,
                     password_hash |-> hash_password(password), role |-> role,
                     is_active |-> is_active, home_dir |-> sanitized_home, last_login |-> 0]
    IN IF ~LongEnough(password) \/ role \notin {"admin", "user"}
       THEN [ok |-> FALSE, users |-> store, fs |-> f]
       ELSE IF ~home.ok THEN [ok |-> FALSE, users |-> store, fs |-> home.fs]
       ELSE IF username \in DOMAIN store THEN [ok |-> FALSE, users |-> store, fs |-> home.fs]
       ELSE [ok |-> TRUE, users |-> store @@ (username :> document), fs |-> home.fs]

\* update_user of the user stored under username (found by its _id): a new
\* home_dir, when one is given and not empty, is sanitized with the stored
\* home as the fallback, and its directory is made; is_active is Nothing
\* (None) or Some(flag)
update_user(store, f, username, is_active, home_dir) ==
    LET user == store[username]
        newHome == home_dir # Nothing /\ home_dir[1] # <<>>
        fallback == IF user.home_dir # <<>> THEN user.home_dir ELSE user.username
        sanitized == sanitize_home_dir(home_dir, fallback)
        home == IF newHome THEN ensure_home_directory(f, sanitized) ELSE [ok |-> TRUE, fs |-> f]
        withActive == IF is_active = Nothing THEN user ELSE [user EXCEPT !.is_active = is_active[1]]
        withHome == IF newHome THEN [withActive EXCEPT !.home_dir = sanitized] ELSE withActive
    IN IF ~home.ok THEN [ok |-> FALSE, users |-> store, fs |-> home.fs]
       ELSE [ok |-> TRUE, users |-> [store EXCEPT ![username] = withHome], fs |-> home.fs]

\* delete_user
delete_user(store, username) == [u \in DOMAIN store \ {username} |-> store[u]]

\* the users the administrator made: Alice is active; Bob was deactivated;
\* Carol's stored hash is empty and Dave's is not a bcrypt hash
CreatedUsers ==
    (uAlice :> User(1, uAlice, hash_password(GoodPassword), TRUE))
    @@ (uBob :> User(2, uBob, hash_password(GoodPassword), FALSE))
    @@ (uCarol :> User(3, uCarol, <<>>, TRUE))
    @@ (uDave :> User(4, uDave, <<"plain", GoodPassword>>, TRUE))

\* the store once the processes have started: the default admin is seeded
InitialUsers == CreatedUsers @@ (uAdmin :> DefaultAdmin(CreatedUsers))

\* bcrypt.checkpw: "ValueError" (invalid salt) when the hash is no bcrypt hash
bcrypt_checkpw(password, password_hash) ==
    IF Len(password_hash) = 2 /\ password_hash[1] = "$2b$"
    THEN IF password_hash[2] = password THEN "match" ELSE "mismatch"
    ELSE "ValueError"

\* verify_password: the ValueError is caught and answered False
verify_password(password, password_hash) ==
    bcrypt_checkpw(password, password_hash) = "match"

\* get_by_username
get_by_username(store, username) ==
    IF username \in DOMAIN store THEN Some(store[username]) ELSE Nothing

\* a mutant of authenticate_user: the active flag is not looked at
authenticate_any_user(store, username, password) ==
    LET user == get_by_username(store, username) IN
    IF user = Nothing THEN Nothing
    ELSE IF ~verify_password(password, user[1].password_hash) THEN Nothing
    ELSE user

\* authenticate up to the last_login update: the user found, or Nothing
authenticate_user(store, username, password) ==
    LET user == get_by_username(store, username) IN
    IF user = Nothing \/ ~user[1].is_active THEN Nothing
    ELSE IF ~verify_password(password, user[1].password_hash) THEN Nothing
    ELSE user

\* -------------------------------------------------------------------------
\* Sessions
\* -------------------------------------------------------------------------

\* the client connections the listener accepts, named by their client_id
Sessions == {1, 2}

\* the bytes one read or write moves at most
MaxChunk == 2

\* the transfer records all sessions buffer at most
MaxTransfers == 2

\* _compute_user_root without its relative_to: every resolved home is taken
compute_user_root_unchecked(f, home_dir, username) ==
    LET candidate == ReplaceBackslash(home_dir)
        parts == PathParts(candidate)
        safe_parts == SelectSeq(parts, LAMBDA seg : seg \notin {<<>>, Dot, DotDot})
        safe_path == IF safe_parts # <<>> THEN safe_parts ELSE <<username>>
    IN [ok |-> TRUE, root |-> Realpath(f, SFTP_ROOT \o safe_path)]

\* _compute_user_root: the parts of home_dir without '', '.' and '..', or the
\* username when none is left, joined to the shared root and resolved; ok is
\* FALSE for the ValueError of relative_to
compute_user_root(f, home_dir, username) ==
    LET candidate == ReplaceBackslash(home_dir)
        anchor == IF candidate # <<>> /\ Head(candidate) = "/" THEN <<<<"/">>>> ELSE <<>>
        parts == anchor \o PathParts(candidate)
        safe_parts == SelectSeq(parts, LAMBDA seg : seg \notin {<<>>, Dot, DotDot})
        safe_path == IF safe_parts # <<>> THEN safe_parts ELSE <<username>>
        joined == IF Head(safe_path) = <<"/">> THEN Tail(safe_path)
                  ELSE SFTP_ROOT \o safe_path
        resolved_root == Realpath(f, joined)
    IN [ok |-> IsUnder(resolved_root, SFTP_ROOT), root |-> resolved_root]

\* _record_transfer keeping count of the last transfer only: its size is the
\* counter of its direction and the other counter is cleared
record_transfer_latest(totals, log, username, direction, path, size) ==
    IF size <= 0 THEN [totals |-> totals, log |-> log]
    ELSE [totals |-> [[upload |-> 0, download |-> 0] EXCEPT ![direction] = size],
          log |-> Append(log, [path |-> path, direction |-> direction, size |-> size,
                               username |-> username, connection_id |-> 0])]

\* _record_transfer without its test of the size: a record for every call
record_transfer_unguarded(totals, log, username, direction, path, size) ==
    [totals |-> [totals EXCEPT ![direction] = @ + size],
     log |-> Append(log, [path |-> path, direction |-> direction, size |-> size,
                          username |-> username, connection_id |-> 0])]

\* _record_transfer: what it makes of the totals and the log of a session
record_transfer(totals, log, username, direction, path, size) ==
    IF size <= 0 THEN [totals |-> totals, log |-> log]
    ELSE [totals |-> [totals EXCEPT ![direction] = @ + size],
          log |-> Append(log, [path |-> path, direction |-> direction, size |-> size,
                               username |-> username, connection_id |-> 0])]

ZeroTotals == [upload |-> 0, download |-> 0]

\* -------------------------------------------------------------------------
\* State
\* -------------------------------------------------------------------------

\* the processes that seed the default admin when they start: the SFTP
\* listener, the admin API and a second worker of the admin API
Starters == {"sftp_server", "admin_api", "admin_api_worker"}

VARIABLES
    vpath,        \* the virtual path handed to the path functions
    canonOnce,    \* Some(canonicalize(vpath)), Nothing until computed
    canonTwice,   \* Some(canonicalize(canonicalize(vpath))), Nothing until computed
    resolved,     \* Some(_resolve_local_path(vpath)) in Alice's home, Nothing until computed
    fs,           \* the host filesystem
    users,        \* the users collection, by username
    connections,  \* the connections collection: the record of id i is connections[i]
    transfers,    \* the transfers collection, in the order of insertion
    clients,      \* ClientTracker.clients: the status by client_id
    pc,           \* where handle_client is, per session
    sftp,         \* the SFTP subsystem thread of the session: none, running, ended
    channel,      \* the transport of the session: none (no channel yet), open, dead
    user_doc,     \* SSHServer.user_doc: Nothing or Some(user record)
    connection_id,    \* handle_client's connection_id, 0 for None
    user_root,        \* SFTPServerInterface.user_root
    transfer_totals,  \* SSHServer.transfer_totals
    transfer_log,     \* SSHServer.transfer_log
    pending,      \* the verb whose path passed the jail and which has yet to act
    handles,      \* the open file handles of the session
    lastResult,   \* the last verb answered: the home of its session, the request, the status
                  \* and the host paths acted on
    lastAuth,     \* the last password authentication of the session: the inputs and the answer
    finalizing,   \* how many times the session entered the finally block
    endCalls,     \* how many times the session called end_connection
    endFailed,    \* whether the finalize update of the session failed in the store
    listener,     \* the listening socket of main: listening, or closed before main listens and when it has returned
    subsystem,    \* the subsystem acknowledged on the channel of the session: none or sftp
    startup       \* where the start-up of each process is with its seeding of the default admin

pathVars == <<vpath, canonOnce, canonTwice, resolved>>
storeVars == <<users, connections, transfers>>
sessVars == <<pc, sftp, channel, user_doc, connection_id, user_root>>
meterVars == <<transfer_totals, transfer_log>>
verbVars == <<pending, handles, lastResult>>
histVars == <<finalizing, endCalls, endFailed>>
wireVars == <<listener, subsystem, startup>>

vars == <<pathVars, fs, storeVars, clients, sessVars, meterVars, verbVars, lastAuth, histVars,
          wireVars>>

NoResult == [root |-> <<>>, verb |-> "", path |-> <<>>, status |-> "", at |-> {}]
NoAuth == [username |-> <<>>, password |-> "", answer |-> ""]

\* nobody is connected
InitSessions ==
    /\ connections = <<>>
    /\ transfers = <<>>
    /\ clients = [s \in Sessions |-> "absent"]
    /\ pc = [s \in Sessions |-> "Idle"]
    /\ sftp = [s \in Sessions |-> "none"]
    /\ channel = [s \in Sessions |-> "none"]
    /\ user_doc = [s \in Sessions |-> Nothing]
    /\ connection_id = [s \in Sessions |-> 0]
    /\ user_root = [s \in Sessions |-> <<>>]
    /\ transfer_totals = [s \in Sessions |-> ZeroTotals]
    /\ transfer_log = [s \in Sessions |-> <<>>]
    /\ pending = [s \in Sessions |-> Nothing]
    /\ handles = [s \in Sessions |-> {}]
    /\ lastResult = NoResult
    /\ lastAuth = [s \in Sessions |-> NoAuth]
    /\ finalizing = [s \in Sessions |-> 0]
    /\ endCalls = [s \in Sessions |-> 0]
    /\ endFailed = [s \in Sessions |-> FALSE]
    /\ subsystem = [s \in Sessions |-> "none"]

\* the state after the module is loaded and main() listens: the store is
\* seeded, nobody is connected
InitServer ==
    /\ users = InitialUsers
    /\ listener = "listening"
    /\ startup = [p \in Starters |-> "seeded"]
    /\ InitSessions

PathIdle ==
    /\ vpath = <<>>
    /\ canonOnce = Nothing
    /\ canonTwice = Nothing
    /\ resolved = Nothing

Init == InitServer /\ PathIdle /\ fs = HomeFs

\* -------------------------------------------------------------------------
\* The path functions on their own
\* -------------------------------------------------------------------------

ServerVars == <<storeVars, clients, sessVars, meterVars, verbVars, lastAuth, histVars, wireVars>>

InitPath ==
    /\ vpath \in StringsUpTo(MaxLen)
    /\ canonOnce = Nothing
    /\ canonTwice = Nothing
    /\ resolved = Nothing
    /\ InitServer
    /\ fs \in JailSetups

\* the client asks REALPATH of vpath
Canonicalize ==
    /\ canonOnce = Nothing
    /\ canonOnce' = Some(canonicalize(vpath))
    /\ UNCHANGED <<vpath, canonTwice, resolved, fs, ServerVars>>

\* the client asks REALPATH of the answer it got
CanonicalizeAgain ==
    /\ canonOnce # Nothing
    /\ canonTwice = Nothing
    /\ canonTwice' = Some(canonicalize(canonOnce[1]))
    /\ UNCHANGED <<vpath, canonOnce, resolved, fs, ServerVars>>

\* a verb resolves vpath in Alice's home
Resolve ==
    /\ resolved = Nothing
    /\ resolved' = Some(resolve_local_path(fs, AliceHome, vpath))
    /\ UNCHANGED <<vpath, canonOnce, canonTwice, fs, ServerVars>>

NextPath == Canonicalize \/ CanonicalizeAgain \/ Resolve

SpecPath == InitPath /\ [][NextPath]_vars

\* -------------------------------------------------------------------------
\* A session serving SFTP verbs
\* -------------------------------------------------------------------------

Str(parts) == <<"/">> \o Join(parts)

EtcPasswdEscape == Str(<<DotDot, DotDot, sEtc, sPasswd>>)

\* the transfer records buffered by all sessions
RECURSIVE Buffered(_)
Buffered(S) ==
    IF S = {} THEN 0
    ELSE LET s == CHOOSE x \in S : TRUE IN Len(transfer_log[s]) + Buffered(S \ {s})

iface_username(s) == IF user_doc[s] = Nothing THEN <<"unknown">> ELSE user_doc[s][1].username

\* a verb's handler up to the jail check of its path(s): PERMISSION_DENIED
\* when a path escapes the home, otherwise the verb has its host path(s) and
\* has yet to act on them
Check(s, requests) ==
    /\ sftp[s] = "running"
    /\ pending[s] = Nothing
    /\ \E req \in requests :
          LET r1 == resolve_local_path(fs, user_root[s], req.path)
              r2 == resolve_local_path(fs, user_root[s], req.path2)
              passed == r1.ok /\ (req.verb = "rename" => r2.ok)
              op == [verb |-> req.verb, path |-> req.path, normalized |-> r1.normalized,
                     local |-> r1.local_path, local2 |-> r2.local_path, flags |-> req.flags]
          IN /\ pending' = [pending EXCEPT ![s] = IF passed THEN Some(op) ELSE Nothing]
             /\ lastResult' = IF passed THEN lastResult
                              ELSE [root |-> user_root[s], verb |-> req.verb, path |-> req.path,
                                    status |-> "PERMISSION_DENIED", at |-> {}]
    /\ UNCHANGED <<pathVars, wireVars, fs, storeVars, clients, sessVars, meterVars, handles, lastAuth, histVars>>

\* the rest of the handler: the system calls on the host path(s) and the answer
Act(s) ==
    /\ sftp[s] = "running"
    /\ pending[s] # Nothing
    /\ LET op == pending[s][1]
           r == VerbAct(fs, op)
       IN /\ fs' = r.fs
          /\ handles' = [handles EXCEPT ![s] = IF r.handle = Nothing THEN @ ELSE @ \cup {r.handle[1]}]
          /\ lastResult' = [root |-> user_root[s], verb |-> op.verb, path |-> op.path,
                            status |-> r.status, at |-> r.at]
    /\ pending' = [pending EXCEPT ![s] = Nothing]
    /\ UNCHANGED <<pathVars, wireVars, storeVars, clients, sessVars, meterVars, lastAuth, histVars>>

\* the answers of a verb whose system call is refused by the OS with a
\* permission or I/O error (EACCES, EIO): _stat_attributes answers
\* NO_SUCH_FILE for any OSError; list_folder answers NO_SUCH_FILE when the
\* error makes exists() or is_dir() false and FAILURE when it comes from the
\* iteration or escapes the handler; open answers PERMISSION_DENIED; the
\* other verbs answer FAILURE
DeniedAnswers(verb) ==
    CASE verb \in {"stat", "lstat"} -> {"NO_SUCH_FILE"}
      [] verb = "list" -> {"NO_SUCH_FILE", "FAILURE"}
      [] verb = "open" -> {"PERMISSION_DENIED"}
      [] OTHER -> {"FAILURE"}

\* the rest of the handler when the OS refuses its system call; open may
\* have made the parent directories before the call that is refused
ActDenied(s) ==
    /\ sftp[s] = "running"
    /\ pending[s] # Nothing
    /\ LET op == pending[s][1] IN
       /\ \E status \in DeniedAnswers(op.verb) :
             lastResult' = [root |-> user_root[s], verb |-> op.verb, path |-> op.path,
                            status |-> status, at |-> {}]
       /\ fs' \in {fs} \cup (IF op.verb = "open" THEN {MkdirParents(fs, Parent(op.local)).fs} ELSE {})
    /\ pending' = [pending EXCEPT ![s] = Nothing]
    /\ UNCHANGED <<pathVars, wireVars, storeVars, clients, sessVars, meterVars, handles, lastAuth, histVars>>

\* _CountingIO.read on the open handle h when the file gives n bytes
ReadBytes(s, h, n) ==
    /\ h.readfile
    /\ n > 0 => Buffered(Sessions) < MaxTransfers
    /\ LET m == record_transfer(transfer_totals[s], transfer_log[s], iface_username(s),
                                "download", h.path, n)
       IN /\ transfer_totals' = [transfer_totals EXCEPT ![s] = m.totals]
          /\ transfer_log' = [transfer_log EXCEPT ![s] = m.log]
    /\ UNCHANGED <<pathVars, wireVars, fs, storeVars, clients, sessVars, verbVars, lastAuth, histVars>>

\* _CountingIO.read on an open handle: the file gives n bytes, none at its
\* end or a whole chunk
Read(s) ==
    /\ sftp[s] = "running"
    /\ pending[s] = Nothing
    /\ \E h \in handles[s], n \in {0, MaxChunk} : ReadBytes(s, h, n)

\* _CountingIO.write on the open handle h when the file takes n bytes
WriteBytes(s, h, n) ==
    /\ h.writefile
    /\ n > 0 => Buffered(Sessions) < MaxTransfers
    /\ LET m == record_transfer(transfer_totals[s], transfer_log[s], iface_username(s),
                                "upload", h.path, n)
       IN /\ transfer_totals' = [transfer_totals EXCEPT ![s] = m.totals]
          /\ transfer_log' = [transfer_log EXCEPT ![s] = m.log]
    /\ UNCHANGED <<pathVars, wireVars, fs, storeVars, clients, sessVars, verbVars, lastAuth, histVars>>

\* _CountingIO.write on an open handle: the file takes n bytes, none of an
\* empty write or a whole chunk
Write(s) ==
    /\ sftp[s] = "running"
    /\ pending[s] = Nothing
    /\ \E h \in handles[s], n \in {0, MaxChunk} : WriteBytes(s, h, n)

\* canonicalize as a verb of the session: _normalize_posix of the path, with
\* no look at the filesystem; the answer is the name
CanonicalizeVerb(s, paths) ==
    /\ sftp[s] = "running"
    /\ pending[s] = Nothing
    /\ \E path \in paths :
           lastResult' = [root |-> user_root[s], verb |-> "canonicalize", path |-> path,
                          status |-> "NAME", at |-> {}]
    /\ UNCHANGED <<pathVars, wireVars, fs, storeVars, clients, sessVars, meterVars, pending,
                   handles, lastAuth, histVars>>

\* a close that records what it flushes as an upload of one byte
CloseEmitting(s) ==
    /\ sftp[s] = "running"
    /\ pending[s] = Nothing
    /\ \E h \in handles[s] :
           /\ handles' = [handles EXCEPT ![s] = @ \ {h}]
           /\ LET m == record_transfer(transfer_totals[s], transfer_log[s], iface_username(s),
                                       "upload", h.path, 1)
              IN /\ transfer_totals' = [transfer_totals EXCEPT ![s] = m.totals]
                 /\ transfer_log' = [transfer_log EXCEPT ![s] = m.log]
    /\ UNCHANGED <<pathVars, wireVars, fs, storeVars, clients, sessVars, pending,
                   lastResult, lastAuth, histVars>>

\* the client closes a handle
Close(s) ==
    /\ sftp[s] = "running"
    /\ pending[s] = Nothing
    /\ \E h \in handles[s] : handles' = [handles EXCEPT ![s] = @ \ {h}]
    /\ UNCHANGED <<pathVars, wireVars, fs, storeVars, clients, sessVars, meterVars, pending,
                   lastResult, lastAuth, histVars>>

\* -------------------------------------------------------------------------
\* The telemetry writer
\* -------------------------------------------------------------------------

\* start_connection: the record inserted; its id is its place in the collection
start_connection(conns, user, client_id) ==
    Append(conns, [user_id |-> user.id, username |-> user.username, client_id |-> client_id,
                   active |-> TRUE, ended_at |-> 0, bytes_uploaded |-> 0,
                   bytes_downloaded |-> 0])

\* a mutant of finalize_update: the totals are written, the record stays active
finalize_totals_only(conns, id, bytes_uploaded, bytes_downloaded) ==
    [conns EXCEPT ![id] = [@ EXCEPT !.bytes_uploaded = bytes_uploaded,
                                    !.bytes_downloaded = bytes_downloaded]]

\* end_connection, the update of the connection record
finalize_update(conns, id, bytes_uploaded, bytes_downloaded) ==
    [conns EXCEPT ![id] = [@ EXCEPT !.ended_at = 1, !.active = FALSE,
                                    !.bytes_uploaded = bytes_uploaded,
                                    !.bytes_downloaded = bytes_downloaded]]

\* a mutant of stamp: the connection id is that of the first connection
stamp_first(log, id) == [i \in DOMAIN log |-> [log[i] EXCEPT !.connection_id = 1]]

\* end_connection, the loop that stamps the buffered records
stamp(log, id) == [i \in DOMAIN log |-> [log[i] EXCEPT !.connection_id = id]]

\* -------------------------------------------------------------------------
\* handle_client, from the accepted socket to the closed one
\* -------------------------------------------------------------------------

Usernames == {uAlice, uBob, uCarol, uDave, uMallory}
Passwords == {GoodPassword, WrongPassword}
ChannelKinds == {"session", "direct-tcpip"}

\* an accept loop that negotiates and authenticates a connection itself
\* before it accepts the next one
waits_for_login(where) == where \in {"Handshake", "WaitChannel"}

\* whether main waits for a session that is at `where` before it calls
\* accept again: it never does, handle_client runs on a thread of its own
waits_for(where) == FALSE

\* the accept loop of main hands the sockets, in the order of their arrival,
\* to a new thread each
Accept(s) ==
    /\ listener = "listening"
    /\ pc[s] = "Idle"
    /\ \A t \in Sessions : t < s => pc[t] # "Idle"
    /\ \A t \in Sessions \ {s} : ~waits_for(pc[t])
    /\ pc' = [pc EXCEPT ![s] = "Handshake"]
    /\ UNCHANGED <<pathVars, wireVars, fs, storeVars, clients, sftp, channel, user_doc, connection_id,
                   user_root, meterVars, verbVars, lastAuth, histVars>>

\* transport.start_server: the negotiation succeeds or raises
StartServer(s) ==
    /\ pc[s] = "Handshake"
    /\ \E ok \in BOOLEAN :
          /\ pc' = [pc EXCEPT ![s] = IF ok THEN "WaitChannel" ELSE "Finally"]
          /\ finalizing' = [finalizing EXCEPT ![s] = IF ok THEN @ ELSE @ + 1]
    /\ UNCHANGED <<pathVars, wireVars, fs, storeVars, clients, sftp, channel, user_doc, connection_id,
                   user_root, meterVars, verbVars, lastAuth, endCalls, endFailed>>

\* a transport that goes on handing passwords to check_auth_password after
\* one was accepted
auth_always_open(doc) == TRUE

\* the transport hands a password to check_auth_password only as long as no
\* attempt has succeeded on it
auth_open(doc) == doc = Nothing

\* check_auth_password on the transport's thread, while handle_client waits
\* for a channel; storeOk is whether the last_login update reaches the store.
\* When it does not, the exception ends the transport.
CheckAuthPassword(s) ==
    /\ pc[s] = "WaitChannel"
    /\ channel[s] = "none"
    /\ auth_open(user_doc[s])
    /\ \E username \in Usernames, password \in Passwords, storeOk \in BOOLEAN :
          LET user == authenticate_user(users, username, password)
              answer == IF user = Nothing THEN "AUTH_FAILED"
                        ELSE IF storeOk THEN "AUTH_SUCCESSFUL" ELSE "RAISED"
          IN /\ users' = IF answer = "AUTH_SUCCESSFUL"
                         THEN [users EXCEPT ![username].last_login = 1] ELSE users
             /\ user_doc' = [user_doc EXCEPT ![s] = IF answer = "AUTH_SUCCESSFUL" THEN user ELSE @]
             /\ channel' = [channel EXCEPT ![s] = IF answer = "RAISED" THEN "dead" ELSE @]
             /\ lastAuth' = [lastAuth EXCEPT ![s] = [username |-> username,
                                                      password |-> password,
                                                      answer |-> answer]]
    /\ UNCHANGED <<pathVars, wireVars, fs, connections, transfers, clients, pc, sftp, connection_id,
                   user_root, meterVars, verbVars, histVars>>

\* check_channel_request
check_channel_request(kind) ==
    IF kind = "session" THEN "OPEN_SUCCEEDED" ELSE "OPEN_FAILED_ADMINISTRATIVELY_PROHIBITED"

\* the authenticated client asks for a channel
ChannelRequest(s) ==
    /\ pc[s] = "WaitChannel"
    /\ channel[s] = "none"
    /\ user_doc[s] # Nothing
    /\ \E kind \in ChannelKinds :
          channel' = [channel EXCEPT ![s] = IF check_channel_request(kind) = "OPEN_SUCCEEDED"
                                            THEN "open" ELSE @]
    /\ UNCHANGED <<pathVars, wireVars, fs, storeVars, clients, pc, sftp, user_doc, connection_id,
                   user_root, meterVars, verbVars, lastAuth, histVars>>

\* a mutant of has_channel: the answer of transport.accept is not looked at
has_channel_unchecked(chan) == TRUE

\* "channel is None" of handle_client, negated
has_channel(chan) == chan = "open"

\* transport.accept(20) gives no channel: handle_client returns
NoChannel(s) ==
    /\ pc[s] = "WaitChannel"
    /\ ~has_channel(channel[s])
    /\ pc' = [pc EXCEPT ![s] = "Finally"]
    /\ finalizing' = [finalizing EXCEPT ![s] = @ + 1]
    /\ UNCHANGED <<pathVars, wireVars, fs, storeVars, clients, sftp, channel, user_doc, connection_id,
                   user_root, meterVars, verbVars, lastAuth, endCalls, endFailed>>

\* transport.accept(20) gave a channel: handle_client returns when nobody is
\* authenticated, and otherwise inserts the connection record; storeOk is
\* whether the insert reaches the store
StartConnection(s) ==
    /\ pc[s] = "WaitChannel"
    /\ has_channel(channel[s])
    /\ \E storeOk \in BOOLEAN :
          LET inserted == user_doc[s] # Nothing /\ storeOk IN
          /\ connections' = IF inserted THEN start_connection(connections, user_doc[s][1], s)
                            ELSE connections
          /\ connection_id' = [connection_id EXCEPT ![s] = IF inserted THEN Len(connections) + 1 ELSE @]
          /\ pc' = [pc EXCEPT ![s] = IF inserted THEN "Connected" ELSE "Finally"]
          /\ finalizing' = [finalizing EXCEPT ![s] = IF inserted THEN @ ELSE @ + 1]
    /\ UNCHANGED <<pathVars, wireVars, fs, users, transfers, clients, sftp, channel, user_doc,
                   user_root, meterVars, verbVars, lastAuth, endCalls, endFailed>>

\* client_tracker.add_client: the entry is made, then the status page is
\* written, which may raise
AddClient(s) ==
    /\ pc[s] = "Connected"
    /\ clients' = [clients EXCEPT ![s] = "connected"]
    /\ \E pageOk \in BOOLEAN :
          /\ pc' = [pc EXCEPT ![s] = IF pageOk THEN "Tracked" ELSE "Finally"]
          /\ finalizing' = [finalizing EXCEPT ![s] = IF pageOk THEN @ ELSE @ + 1]
    /\ UNCHANGED <<pathVars, wireVars, fs, storeVars, sftp, channel, user_doc, connection_id,
                   user_root, meterVars, verbVars, lastAuth, endCalls, endFailed>>

\* SFTPServer(...) builds the SFTPServerInterface: the home is computed and
\* made, the counters are reset; then the subsystem thread starts and
\* handle_client waits in join
SftpStart(s) ==
    /\ pc[s] = "Tracked"
    /\ LET username == iface_username(s)
           home_dir == IF user_doc[s][1].home_dir # <<>> THEN user_doc[s][1].home_dir ELSE username
           home == compute_user_root(fs, home_dir, username)
           made == MkdirParents(fs, home.root)
           built == home.ok /\ made.ok
       IN /\ fs' = IF home.ok THEN made.fs ELSE fs
          /\ user_root' = [user_root EXCEPT ![s] = IF built THEN home.root ELSE @]
          /\ transfer_totals' = [transfer_totals EXCEPT ![s] = IF built THEN ZeroTotals ELSE @]
          /\ transfer_log' = [transfer_log EXCEPT ![s] = IF built THEN <<>> ELSE @]
          /\ sftp' = [sftp EXCEPT ![s] = IF built THEN "running" ELSE @]
          /\ pc' = [pc EXCEPT ![s] = IF built THEN "Serving" ELSE "Finally"]
          /\ finalizing' = [finalizing EXCEPT ![s] = IF built THEN @ ELSE @ + 1]
    /\ UNCHANGED <<pathVars, wireVars, storeVars, clients, channel, user_doc, connection_id, verbVars, lastAuth, endCalls, endFailed>>

\* the subsystem thread ends, between two verbs: the peer closed, the
\* connection dropped, reading or writing the socket failed, or a handler
\* raised. The library closes the handles left open.
SftpEnd(s) ==
    /\ sftp[s] = "running"
    /\ pending[s] = Nothing
    /\ sftp' = [sftp EXCEPT ![s] = "ended"]
    /\ handles' = [handles EXCEPT ![s] = {}]
    /\ UNCHANGED <<pathVars, wireVars, fs, storeVars, clients, pc, channel, user_doc, connection_id,
                   user_root, meterVars, pending, lastResult, lastAuth, histVars>>

\* a mutant of join_returns: handle_client does not wait for the subsystem thread
join_returns_at_once(state) == TRUE

\* sftp_server.join() returns once the subsystem thread has ended
join_returns(state) == state = "ended"

JoinSftp(s) ==
    /\ pc[s] = "Serving"
    /\ join_returns(sftp[s])
    /\ pc' = [pc EXCEPT ![s] = "Finally"]
    /\ finalizing' = [finalizing EXCEPT ![s] = @ + 1]
    /\ UNCHANGED <<pathVars, wireVars, fs, storeVars, clients, sftp, channel, user_doc, connection_id,
                   user_root, meterVars, verbVars, lastAuth, endCalls, endFailed>>

\* the finally block with a connection_id: end_connection updates the
\* connection record with the totals; storeOk is whether the update reaches
\* the store. When it does not, the exception is caught and printed.
EndConnectionUpdate(s) ==
    /\ pc[s] = "Finally"
    /\ connection_id[s] # 0
    /\ endCalls' = [endCalls EXCEPT ![s] = @ + 1]
    /\ \E storeOk \in BOOLEAN :
          /\ connections' = IF storeOk
                            THEN finalize_update(connections, connection_id[s],
                                                 transfer_totals[s].upload,
                                                 transfer_totals[s].download)
                            ELSE connections
          /\ endFailed' = [endFailed EXCEPT ![s] = ~storeOk]
          /\ pc' = [pc EXCEPT ![s] = IF storeOk /\ transfer_log[s] # <<>>
                                     THEN "EndInsert" ELSE "Untrack"]
    /\ UNCHANGED <<pathVars, wireVars, fs, users, transfers, clients, sftp, channel, user_doc,
                   connection_id, user_root, meterVars, verbVars, lastAuth, finalizing>>

\* end_connection stamps the buffered records and inserts them in one batch,
\* of which the store takes the first k; the exception of a batch not taken
\* whole is caught and printed
EndConnectionInsert(s) ==
    /\ pc[s] = "EndInsert"
    /\ LET batch == stamp(transfer_log[s], connection_id[s]) IN
          /\ transfer_log' = [transfer_log EXCEPT ![s] = batch]
          /\ \E k \in 0..Len(batch) : transfers' = transfers \o SubSeq(batch, 1, k)
    /\ pc' = [pc EXCEPT ![s] = "Untrack"]
    /\ UNCHANGED <<pathVars, wireVars, fs, users, connections, clients, sftp, channel, user_doc,
                   connection_id, user_root, transfer_totals, verbVars, lastAuth,
                   histVars>>

\* the rest of the finally block: remove_client marks the entry and writes
\* the status page; when that raises the thread dies with the transport and
\* the socket left open, otherwise both are closed
RemoveClient(s) ==
    /\ \/ pc[s] = "Untrack"
       \/ pc[s] = "Finally" /\ connection_id[s] = 0
    /\ clients' = [clients EXCEPT ![s] = IF @ = "absent" THEN @ ELSE "disconnected"]
    /\ \E pageOk \in BOOLEAN : pc' = [pc EXCEPT ![s] = IF pageOk THEN "Closed" ELSE "Crashed"]
    /\ UNCHANGED <<pathVars, wireVars, fs, storeVars, sftp, channel, user_doc, connection_id,
                   user_root, meterVars, verbVars, lastAuth, histVars>>

\* check_channel_subsystem_request
check_channel_subsystem_request(name) == name = "sftp"

SubsystemNames == {"sftp", "shell"}

\* the client asks for a subsystem on its channel, at any time while the
\* transport lives; nothing in handle_client waits for it
SubsystemRequest(s) ==
    /\ channel[s] = "open"
    /\ pc[s] \in {"WaitChannel", "Connected", "Tracked", "Serving"}
    /\ sftp[s] # "ended"
    /\ \E name \in SubsystemNames :
          subsystem' = [subsystem EXCEPT ![s] = IF check_channel_subsystem_request(name)
                                                THEN name ELSE @]
    /\ UNCHANGED <<pathVars, listener, startup, fs, storeVars, clients, sessVars, meterVars, verbVars,
                   lastAuth, histVars>>

\* KeyboardInterrupt in main: the listening socket is closed, main returns
\* and the process exits. The threads of the sessions are daemon threads:
\* they stop where they are, and a finally block not yet run is not run.
Shutdown ==
    /\ listener = "listening"
    /\ listener' = "closed"
    /\ pc' = [s \in Sessions |-> IF pc[s] \in {"Idle", "Closed", "Crashed"} THEN pc[s]
                                 ELSE "Killed"]
    /\ sftp' = [s \in Sessions |-> IF sftp[s] = "running" THEN "killed" ELSE sftp[s]]
    /\ UNCHANGED <<pathVars, subsystem, startup, fs, storeVars, clients, channel, user_doc,
                   connection_id, user_root, meterVars, verbVars, lastAuth, histVars>>

RO == {}
RDWR == {"O_RDWR"}

\* what the clients ask for in a session followed from connect to close
SessionRequests ==
    { Req("open", Str(<<sA, sA>>), <<>>, RDWR),
      Req("stat", EtcPasswdEscape, <<>>, {}) }

Next ==
    \E s \in Sessions :
        \/ Accept(s) \/ StartServer(s) \/ CheckAuthPassword(s) \/ ChannelRequest(s)
        \/ NoChannel(s) \/ StartConnection(s) \/ AddClient(s) \/ SftpStart(s)
        \/ Check(s, SessionRequests) \/ Act(s) \/ Read(s) \/ Write(s) \/ Close(s)
        \/ SftpEnd(s) \/ JoinSftp(s)
        \/ EndConnectionUpdate(s) \/ EndConnectionInsert(s) \/ RemoveClient(s)

Spec == Init /\ [][Next]_vars

\* a specification in which handle_client, once it can take its next step
\* around the finally block, does take it
Fair ==
    \A s \in Sessions :
        /\ WF_vars(JoinSftp(s))
        /\ WF_vars(EndConnectionUpdate(s))

FairSpec == Spec /\ Fair

\* the sessions, and the operator who may stop the server at any time
NextShutdown == Next \/ Shutdown

SpecShutdown == Init /\ [][NextShutdown]_vars

\* the sessions, with clients that ask for subsystems on their channels
NextSubsystem == Next \/ \E s \in Sessions : SubsystemRequest(s)

SpecSubsystem == Init /\ [][NextSubsystem]_vars

\* -------------------------------------------------------------------------
\* Two users served at the same time
\* -------------------------------------------------------------------------

sErin == <<"e", "r", "i", "n">>
uErin == sErin
ErinHome == <<SFTP_ROOT[1], sErin>>

PairUsers == InitialUsers @@ (uErin :> User(6, uErin, hash_password(GoodPassword), TRUE))

\* Erin's home holds a directory a with a file a in it, as Alice's does
PairFs ==
    HomeFs @@ (ErinHome :> DirNode)
           @@ (ErinHome \o <<sA>> :> DirNode)
           @@ (ErinHome \o <<sA, sA>> :> FileNode)

\* who is logged in on which connection
PairOf(s) == IF s = 1 THEN uAlice ELSE uErin

PairRequests == { Req("open", Str(<<sA, sA>>), <<>>, RDWR) }

\* the first connection is Alice's, the others are Erin's; all reached Serving
InitPair ==
    /\ PathIdle
    /\ fs = PairFs
    /\ users = [u \in DOMAIN PairUsers |->
                  [PairUsers[u] EXCEPT !.last_login = IF u \in {uAlice, uErin} THEN 1 ELSE 0]]
    /\ connections = [i \in Sessions |->
                        [user_id |-> PairUsers[PairOf(i)].id, username |-> PairOf(i),
                         client_id |-> i, active |-> TRUE, ended_at |-> 0,
                         bytes_uploaded |-> 0, bytes_downloaded |-> 0]]
    /\ transfers = <<>>
    /\ clients = [s \in Sessions |-> "connected"]
    /\ pc = [s \in Sessions |-> "Serving"]
    /\ sftp = [s \in Sessions |-> "running"]
    /\ channel = [s \in Sessions |-> "open"]
    /\ user_doc = [s \in Sessions |-> Some(PairUsers[PairOf(s)])]
    /\ connection_id = [s \in Sessions |-> s]
    /\ user_root = [s \in Sessions |-> <<SFTP_ROOT[1], PairOf(s)>>]
    /\ transfer_totals = [s \in Sessions |-> ZeroTotals]
    /\ transfer_log = [s \in Sessions |-> <<>>]
    /\ pending = [s \in Sessions |-> Nothing]
    /\ handles = [s \in Sessions |-> {}]
    /\ lastResult = NoResult
    /\ lastAuth = [s \in Sessions |-> [username |-> PairOf(s), password |-> GoodPassword,
                                        answer |-> "AUTH_SUCCESSFUL"]]
    /\ finalizing = [s \in Sessions |-> 0]
    /\ endCalls = [s \in Sessions |-> 0]
    /\ endFailed = [s \in Sessions |-> FALSE]
    /\ listener = "listening"
    /\ subsystem = [s \in Sessions |-> "sftp"]
    /\ startup = [p \in Starters |-> "seeded"]

NextPair ==
    \E s \in Sessions :
        \/ Check(s, PairRequests) \/ Act(s) \/ Read(s) \/ Write(s) \/ Close(s)
        \/ SftpEnd(s) \/ JoinSftp(s)
        \/ EndConnectionUpdate(s) \/ EndConnectionInsert(s) \/ RemoveClient(s)

SpecPair == InitPair /\ [][NextPair]_vars

\* -------------------------------------------------------------------------
\* Claims about the sessions
\* -------------------------------------------------------------------------

HasRecord(s) == \E i \in DOMAIN connections : connections[i].client_id = s
Over(s) == pc[s] \in {"Closed", "Crashed"}

\* C3, as the spec words it: every session whose Connection Record was
\* inserted ends with that record finalized (active=false, ended_at set)
C3_FinalizedWhateverEnds ==
    \A s \in Sessions :
        Over(s) /\ connection_id[s] # 0 =>
            /\ ~connections[connection_id[s]].active
            /\ connections[connection_id[s]].ended_at # 0

\* C3, amended: a session whose Connection Record was inserted enters the
\* finally block once and calls end_connection once, whatever ended it; the
\* record is active until then, and afterwards it is finalized
\* (active=false, ended_at set) unless the store failed the update, in
\* which case it stays active. Once the subsystem thread has ended,
\* end_connection is eventually called.
C3_FinalizeAttemptedOnce ==
    /\ [](\A s \in Sessions :
            /\ finalizing[s] <= 1
            /\ endCalls[s] <= finalizing[s]
            /\ connection_id[s] # 0 =>
                 LET rec == connections[connection_id[s]] IN
                 /\ endCalls[s] = 0 => rec.active /\ rec.ended_at = 0
                 /\ endCalls[s] = 1 /\ ~endFailed[s] => ~rec.active /\ rec.ended_at # 0
                 /\ endCalls[s] = 1 /\ endFailed[s] => rec.active
                 /\ Over(s) => finalizing[s] = 1 /\ endCalls[s] = 1)
    /\ \A s \in Sessions :
          (connection_id[s] # 0 /\ sftp[s] = "ended") ~> (endCalls[s] = 1)

C3_Witness ==
    \E s \in Sessions :
        /\ pc[s] = "Closed"
        /\ sftp[s] = "ended"
        /\ connection_id[s] # 0
        /\ endCalls[s] = 1
        /\ ~connections[connection_id[s]].active

RECURSIVE SumSizes(_, _, _)
SumSizes(records, id, direction) ==
    IF records = <<>> THEN 0
    ELSE (IF Head(records).connection_id = id /\ Head(records).direction = direction
          THEN Head(records).size ELSE 0) + SumSizes(Tail(records), id, direction)

\* C4: in every state of the store, a finalized Connection Record
\* (active=false) carries byte totals equal to the sums of the sizes of its
\* persisted Transfer Records, per direction
C4_TotalsEqualPersistedSums ==
    \A i \in DOMAIN connections :
        ~connections[i].active =>
            /\ connections[i].bytes_uploaded = SumSizes(transfers, i, "upload")
            /\ connections[i].bytes_downloaded = SumSizes(transfers, i, "download")

\* the conditions of a rejection, read off the store
NotFound(username) == username \notin DOMAIN users
Inactive(username) == ~users[username].is_active
BadHash(username) ==
    LET h == users[username].password_hash IN h = <<>> \/ Len(h) # 2 \/ h[1] # "$2b$"
Mismatch(username, password) == users[username].password_hash[2] # password
Rejected(username, password) ==
    \/ NotFound(username)
    \/ Inactive(username)
    \/ BadHash(username)
    \/ Mismatch(username, password)

\* C5: an authentication gives the session a user record only when the
\* user exists, is active and the password verifies; when the user is not
\* found, is inactive, has an empty or malformed hash or the password
\* mismatches, the answer is AUTH_FAILED, the session stays unauthenticated
\* and nothing is raised
C5_AuthenticateOnlyValid ==
    \A s \in Sessions :
        LET a == lastAuth[s] IN
        /\ user_doc[s] # Nothing =>
             /\ a.answer = "AUTH_SUCCESSFUL"
             /\ user_doc[s][1].username = a.username
        /\ a.answer = "AUTH_SUCCESSFUL" =>
             /\ ~Rejected(a.username, a.password)
             /\ user_doc[s] # Nothing
             /\ users[a.username].last_login = 1
        /\ a.answer # "" /\ Rejected(a.username, a.password) =>
             /\ a.answer = "AUTH_FAILED"
             /\ user_doc[s] = Nothing
             /\ channel[s] # "dead"

C5_Witness ==
    \E s \in Sessions :
        lastAuth[s] = [username |-> uBob, password |-> GoodPassword, answer |-> "AUTH_FAILED"]

\* C6: a session has a Connection Record only if its authentication
\* succeeded and its channel was opened; a session that is over without
\* both has none and called neither start_connection nor end_connection
\* with effect
C6_RecordOnlyAfterAuthAndChannel ==
    \A s \in Sessions :
        /\ HasRecord(s) \/ connection_id[s] # 0 =>
             /\ lastAuth[s].answer = "AUTH_SUCCESSFUL"
             /\ user_doc[s] # Nothing
             /\ channel[s] = "open"
        /\ Over(s) /\ (user_doc[s] = Nothing \/ channel[s] # "open") =>
             /\ ~HasRecord(s)
             /\ connection_id[s] = 0
             /\ endCalls[s] = 0

C6_Witness ==
    \E s, t \in Sessions :
        /\ HasRecord(s)
        /\ Over(t) /\ ~HasRecord(t)
        /\ user_doc[t] # Nothing /\ channel[t] = "none"

IsStatEscape(p) == p # Nothing /\ p[1].verb = "stat" /\ p[1].path = EtcPasswdEscape
StatEscapeAnswered ==
    lastResult.verb = "stat" /\ lastResult.path = EtcPasswdEscape

\* C9, as the spec words it: stat("/../../etc/passwd") in a session of
\* alice is answered PERMISSION_DENIED
C9_EscapeIsDenied ==
    StatEscapeAnswered => lastResult.status = "PERMISSION_DENIED"

\* C9, amended: stat("/../../etc/passwd") in a session of alice is clamped
\* to /etc/passwd inside her home: the jail check passes, the answer is
\* NO_SUCH_FILE as her home has no etc/passwd, the host's /etc/passwd is not
\* reached, and the step that checks or answers it leaves the transfer log,
\* the totals and the persisted transfers as they were
C9_EscapeIsClamped ==
    /\ [](StatEscapeAnswered =>
            /\ lastResult.status = "NO_SUCH_FILE"
            /\ <<sEtc, sPasswd>> \notin lastResult.at)
    /\ [](\A s \in Sessions :
            IsStatEscape(pending[s]) =>
                /\ pending[s][1].normalized = Str(<<sEtc, sPasswd>>)
                /\ pending[s][1].local = user_root[s] \o <<sEtc, sPasswd>>)
    /\ [][(\E s \in Sessions :
              /\ pending'[s] # pending[s]
              /\ IsStatEscape(pending[s]) \/ IsStatEscape(pending'[s]))
          => UNCHANGED <<transfer_log, transfer_totals, transfers>>]_vars

C9_Witness ==
    /\ StatEscapeAnswered
    /\ lastResult.status = "NO_SUCH_FILE"
    /\ lastResult.root = AliceHome
    /\ Exists(fs, <<sEtc, sPasswd>>)

\* C10: a transfer is buffered only by a session whose Connection Record
\* is in the store and for which end_connection has not been called; the
\* records persisted are those of a connection in the store whose finalize
\* update was made
C10_RecordBracketsTransfers ==
    /\ [](\A s \in Sessions : transfer_log[s] # <<>> => HasRecord(s) /\ connection_id[s] # 0)
    /\ [](\A i \in DOMAIN transfers :
            /\ transfers[i].connection_id \in DOMAIN connections
            /\ ~connections[transfers[i].connection_id].active)
    /\ [][\A s \in Sessions :
            Len(transfer_log'[s]) # Len(transfer_log[s]) =>
                /\ connection_id[s] # 0
                /\ connections[connection_id[s]].active
                /\ endCalls[s] = 0]_vars

C10_Witness ==
    \E s \in Sessions :
        /\ endCalls[s] = 1
        /\ Len(transfer_log[s]) = MaxTransfers
        /\ ~connections[connection_id[s]].active
        /\ Len(transfers) = MaxTransfers

\* C11: an authentication with valid credentials (the user exists, is
\* active, the password verifies) succeeds and gives the session the user
\* record, whether or not the store takes the last_login update
C11_LastLoginBestEffort ==
    \A s \in Sessions :
        LET a == lastAuth[s] IN
        a.answer # "" /\ ~Rejected(a.username, a.password) =>
            /\ a.answer = "AUTH_SUCCESSFUL"
            /\ user_doc[s] # Nothing

\* the insert of the Connection Record of s failed in the store: s is
\* authenticated, got its channel, left the wait and has no connection_id
InsertFailed(s) ==
    /\ user_doc[s] # Nothing
    /\ channel[s] = "open"
    /\ pc[s] # "WaitChannel"
    /\ connection_id[s] = 0

\* C12: a session whose Connection Record insert failed in the store is not
\* terminated: it does not reach the finally block before its SFTP
\* subsystem has served
C12_InsertErrorStillServes ==
    \A s \in Sessions :
        InsertFailed(s) /\ pc[s] \in {"Finally", "Untrack", "Closed", "Crashed"} =>
            sftp[s] = "ended"

\* C13: a session whose finalize update failed in the store still closes:
\* once it is over it was removed from the tracker and its transport and
\* socket were closed
C13_FinalizeErrorStillCloses ==
    \A s \in Sessions :
        endFailed[s] /\ Over(s) =>
            /\ clients[s] = "disconnected"
            /\ pc[s] = "Closed"

\* C14: no exception leaves handle_client: a session never ends by an
\* exception that escaped the finally block, with its transport and socket
\* left open
C14_NoExceptionLeavesSession ==
    \A s \in Sessions : pc[s] # "Crashed"

\* C15: when the server has been shut down, the listening socket is closed
\* and end_connection was called for every session that had its Connection
\* Record inserted
C15_ShutdownFinalizes ==
    listener = "closed" =>
        \A s \in Sessions : connection_id[s] # 0 => endCalls[s] = 1

\* C16: a session has its Connection Record inserted and its SFTP verbs
\* handled only after a subsystem request named sftp was acknowledged on its
\* channel; the channel is a session channel and no other subsystem name is
\* ever acknowledged
C16_ServingAfterSubsystem ==
    \A s \in Sessions :
        /\ subsystem[s] \in {"none", "sftp"}
        /\ subsystem[s] = "sftp" => channel[s] = "open"
        /\ connection_id[s] # 0 \/ sftp[s] # "none" => subsystem[s] = "sftp"

\* the bytes of the records of a log in one direction
RECURSIVE LogSum(_, _)
LogSum(log, direction) ==
    IF log = <<>> THEN 0
    ELSE (IF Head(log).direction = direction THEN Head(log).size ELSE 0)
         + LogSum(Tail(log), direction)

\* C17: whatever the interleaving of two sessions of different users, the
\* log of a session holds records of its own user only, its counters are
\* the sums of its own log, its finalized Connection Record carries its own
\* counters, every persisted Transfer Record carries the connection id of a
\* record of the same username and is a record of that session's log, and a
\* step that changes the counters or the log of one session leaves those of
\* the others alone
C17_SessionsShareNoTelemetry ==
    /\ [](\A s \in Sessions :
            /\ \A i \in DOMAIN transfer_log[s] :
                  /\ transfer_log[s][i].username = iface_username(s)
                  /\ transfer_log[s][i].connection_id \in {0, connection_id[s]}
            /\ transfer_totals[s].upload = LogSum(transfer_log[s], "upload")
            /\ transfer_totals[s].download = LogSum(transfer_log[s], "download")
            /\ connection_id[s] # 0 /\ ~connections[connection_id[s]].active =>
                  /\ connections[connection_id[s]].username = iface_username(s)
                  /\ connections[connection_id[s]].bytes_uploaded = transfer_totals[s].upload
                  /\ connections[connection_id[s]].bytes_downloaded = transfer_totals[s].download)
    /\ [](\A i \in DOMAIN transfers :
            /\ transfers[i].connection_id \in DOMAIN connections
            /\ connections[transfers[i].connection_id].username = transfers[i].username
            /\ \E s \in Sessions :
                  /\ connection_id[s] = transfers[i].connection_id
                  /\ \E k \in DOMAIN transfer_log[s] : transfer_log[s][k] = transfers[i])
    /\ [][\A s, t \in Sessions :
            s # t /\ <<transfer_log[s], transfer_totals[s]>>' # <<transfer_log[s], transfer_totals[s]>>
                => <<transfer_log[t], transfer_totals[t]>>' = <<transfer_log[t], transfer_totals[t]>>]_vars

C17_Witness ==
    \E s, t \in Sessions :
        /\ iface_username(s) # iface_username(t)
        /\ ~connections[connection_id[s]].active /\ ~connections[connection_id[t]].active
        /\ connections[connection_id[s]].bytes_uploaded = MaxChunk
        /\ connections[connection_id[t]].bytes_uploaded = MaxChunk
        /\ Len(transfers) = MaxTransfers

\* what a read or write of n bytes through a metered handle of session s has
\* to do to the session's log and counters
Metered(s, direction, path, n) ==
    IF n > 0
    THEN /\ transfer_log'[s] = Append(transfer_log[s],
                                      [path |-> path, direction |-> direction, size |-> n,
                                       username |-> iface_username(s), connection_id |-> 0])
         /\ transfer_totals'[s] = [transfer_totals[s] EXCEPT ![direction] = @ + n]
    ELSE /\ transfer_log'[s] = transfer_log[s]
         /\ transfer_totals'[s] = transfer_totals[s]

\* C18: on a metered handle a read of n > 0 bytes appends exactly one download
\* record of size n to the session's log and adds n to its download counter, a
\* write of n > 0 bytes does the same for upload, a read or write of no bytes
\* leaves the log and both counters as they were, and so every record in a
\* session's log has a size greater than 0
C18_EveryByteMeteredOnce ==
    /\ [](\A s \in Sessions : \A i \in 1..Len(transfer_log[s]) : transfer_log[s][i].size > 0)
    /\ [][\A s \in Sessions : \A h \in handles[s] : \A n \in 0..MaxChunk :
             /\ ReadBytes(s, h, n) => Metered(s, "download", h.path, n)
             /\ WriteBytes(s, h, n) => Metered(s, "upload", h.path, n)]_vars

\* a session that has read a whole chunk and written a whole chunk through its
\* handles: one record and one chunk counted in each direction
C18_Witness ==
    \E s \in Sessions :
        /\ sftp[s] = "running"
        /\ Len(transfer_log[s]) = 2
        /\ {transfer_log[s][i].direction : i \in 1..2} = {"download", "upload"}
        /\ transfer_totals[s] = [upload |-> MaxChunk, download |-> MaxChunk]

\* C24: no step lowers the upload or the download counter of a session, the
\* making of the SFTP handler included, and the totals that end_connection
\* wrote into the Connection Record are the counters as they stay from then on
C24_CountersNeverDecrease ==
    /\ [][\A s \in Sessions :
             /\ transfer_totals'[s].upload >= transfer_totals[s].upload
             /\ transfer_totals'[s].download >= transfer_totals[s].download]_vars
    /\ [](\A s \in Sessions :
             connection_id[s] # 0 /\ endCalls[s] = 1 /\ ~endFailed[s] =>
                 /\ connections[connection_id[s]].bytes_uploaded = transfer_totals[s].upload
                 /\ connections[connection_id[s]].bytes_downloaded = transfer_totals[s].download)

\* a session that uploaded and then downloaded a chunk and whose record was
\* finalized with both
C24_Witness ==
    \E s \in Sessions :
        /\ pc[s] = "Closed"
        /\ Len(transfer_log[s]) = 2
        /\ transfer_log[s][1].direction = "upload" /\ transfer_log[s][2].direction = "download"
        /\ transfer_totals[s] = [upload |-> MaxChunk, download |-> MaxChunk]
        /\ connections[connection_id[s]].bytes_uploaded = MaxChunk
        /\ connections[connection_id[s]].bytes_downloaded = MaxChunk

\* C26: while the listener listens, the next connection can be accepted
\* whatever the other sessions are blocked in (handshake, authentication,
\* store I/O, channel wait), and the session of an accepted connection can
\* start its handshake
C26_AcceptNeverBlocked ==
    \A s \in Sessions :
        /\ (listener = "listening" /\ pc[s] = "Idle" /\ \A t \in Sessions : t < s => pc[t] # "Idle")
               => ENABLED Accept(s)
        /\ pc[s] = "Handshake" => ENABLED StartServer(s)

\* the first connection is still waiting for a password that verifies, the
\* second one was accepted and is in its handshake
C26_Witness ==
    /\ pc[1] = "WaitChannel" /\ user_doc[1] = Nothing /\ lastAuth[1].answer = "AUTH_FAILED"
    /\ pc[2] = "Handshake"

\* -------------------------------------------------------------------------
\* Two sessions of Alice serving verbs on one home
\* -------------------------------------------------------------------------

JailRequests ==
    { Req("stat", Str(<<sA, sA>>), <<>>, {}),
      Req("list", Str(<<sA>>), <<>>, {}),
      Req("open", Str(<<sA, sA>>), <<>>, RO),
      Req("setattr", Str(<<sA, sA>>), <<>>, {"st_mode"}),
      Req("remove", Str(<<sA, sA>>), <<>>, {}),
      Req("mkdir", Str(<<sA>>), <<>>, {}),
      Req("rmdir", Str(<<sA>>), <<>>, {}),
      Req("rename", Str(<<sB>>), Str(<<sA>>), {}) }

AliceConnection(s) ==
    [user_id |-> 1, username |-> uAlice, client_id |-> s, active |-> TRUE,
     ended_at |-> 0, bytes_uploaded |-> 0, bytes_downloaded |-> 0]

\* both sessions logged in as Alice and reached Serving
InitFS ==
    /\ PathIdle
    /\ fs = HomeFs
    /\ users = [InitialUsers EXCEPT ![uAlice].last_login = 1]
    /\ connections = [i \in Sessions |-> AliceConnection(i)]
    /\ transfers = <<>>
    /\ clients = [s \in Sessions |-> "connected"]
    /\ pc = [s \in Sessions |-> "Serving"]
    /\ sftp = [s \in Sessions |-> "running"]
    /\ channel = [s \in Sessions |-> "open"]
    /\ user_doc = [s \in Sessions |-> Some(InitialUsers[uAlice])]
    /\ connection_id = [s \in Sessions |-> s]
    /\ user_root = [s \in Sessions |-> AliceHome]
    /\ transfer_totals = [s \in Sessions |-> ZeroTotals]
    /\ transfer_log = [s \in Sessions |-> <<>>]
    /\ pending = [s \in Sessions |-> Nothing]
    /\ handles = [s \in Sessions |-> {}]
    /\ lastResult = NoResult
    /\ lastAuth = [s \in Sessions |-> [username |-> uAlice, password |-> GoodPassword,
                                        answer |-> "AUTH_SUCCESSFUL"]]
    /\ finalizing = [s \in Sessions |-> 0]
    /\ endCalls = [s \in Sessions |-> 0]
    /\ endFailed = [s \in Sessions |-> FALSE]
    /\ listener = "listening"
    /\ subsystem = [s \in Sessions |-> "sftp"]
    /\ startup = [p \in Starters |-> "seeded"]

NextFS == \E s \in Sessions : Check(s, JailRequests) \/ Act(s)

SpecFS == InitFS /\ [][NextFS]_vars

\* C1: no verb answers a success after acting on a host path outside the
\* home of its session, whatever another session does to the home between
\* the jail check and the system call
C1_NoSuccessOutsideHome ==
    lastResult.status \in Successes =>
        \A loc \in lastResult.at : IsUnder(loc, lastResult.root)

\* the verbs that are to answer NO_SUCH_FILE for a missing target
NotFoundVerbs == {"stat", "lstat", "list", "open", "remove", "rename", "rmdir", "setattr"}

\* the system call of the pending operation op finds no entry at its target
\* in f: stat, iterdir, chmod and utime follow a last link, lstat, unlink,
\* rmdir and rename do not; open looks for the file only in the r modes
\* and when O_CREAT has not made it; chattr with no attribute makes no call
TargetAbsent(f, op) ==
    CASE op.verb \in {"stat", "list"} -> ~Found(f, op.local, TRUE)
      [] op.verb \in {"lstat", "remove", "rmdir", "rename"} -> ~Found(f, op.local, FALSE)
      [] op.verb = "setattr" -> /\ op.flags \cap {"st_mode", "st_atime", "st_mtime"} # {}
                                /\ ~Found(f, op.local, TRUE)
      [] op.verb = "open" -> /\ OpenMode(op.flags) \in {"rb", "r+b"}
                             /\ "O_CREAT" \notin op.flags
                             /\ MkdirParents(f, Parent(op.local)).ok
                             /\ ~Found(MkdirParents(f, Parent(op.local)).fs, op.local, TRUE)
      [] OTHER -> FALSE

\* C19: a verb that passed the jail check and whose system call finds no
\* entry at its target (stat, lstat, list, open, remove, rename, rmdir,
\* setattr) answers NO_SUCH_FILE
C19_MissingTargetIsNoSuchFile ==
    [][\A s \in Sessions :
          Act(s) /\ pending[s][1].verb \in NotFoundVerbs /\ TargetAbsent(fs, pending[s][1])
              => lastResult'.status = "NO_SUCH_FILE"]_vars

\* -------------------------------------------------------------------------
\* One session opening files under every flag set
\* -------------------------------------------------------------------------

\* the flag words paramiko hands to open: one access mode, with or without
\* O_APPEND and O_CREAT
OpenFlags ==
    { access \cup extra : access \in {{}, {"O_WRONLY"}, {"O_RDWR"}},
                          extra \in SUBSET {"O_APPEND", "O_CREAT"} }

\* a file that is not there in a directory that is (/a/b), a file whose
\* directory is not there (/b/b/a), a path under a file (/a/a/b), and what
\* takes /a/b away again
OpenRequests ==
    { Req("open", Str(<<sA, sB>>), <<>>, flags) : flags \in OpenFlags }
    \cup { Req("open", Str(<<sB, sB, sA>>), <<>>, flags) : flags \in {{}, {"O_CREAT"}} }
    \cup { Req("open", Str(<<sA, sA, sB>>), <<>>, {"O_CREAT"}),
           Req("remove", Str(<<sA, sB>>), <<>>, {}) }

NextOpen == Check(1, OpenRequests) \/ Act(1) \/ Close(1)

SpecOpen == InitFS /\ [][NextOpen]_vars

\* the mapping table of the access mode, read from its first row down
TableMode(flags) ==
    IF {"O_WRONLY", "O_APPEND"} \subseteq flags THEN "ab"
    ELSE IF "O_WRONLY" \in flags THEN "wb"
    ELSE IF {"O_RDWR", "O_APPEND"} \subseteq flags THEN "a+b"
    ELSE IF "O_RDWR" \in flags THEN "r+b"
    ELSE "rb"

\* C20: the file that open hands out was opened in the mode the mapping table
\* gives for the flags; with O_CREAT, a file that is not there and whose
\* directory is there or can be made is made before the file is opened, so
\* that open answers a handle in every mode and the file is there afterwards;
\* without O_CREAT an open in the read or the read-write mode of a file that
\* is not there answers PERMISSION_DENIED and leaves the file not there; under
\* a path that cannot be a directory nothing is made
C20_OpenModeAndCreate ==
    [][\A s \in Sessions :
          Act(s) /\ pending[s][1].verb = "open" =>
              LET op == pending[s][1]
                  dirs == MkdirParents(fs, Parent(op.local))
                  absent == ~Found(fs, op.local, TRUE)
                  answer == lastResult'.status
              IN /\ answer \in {"HANDLE", "PERMISSION_DENIED"}
                 /\ answer = "HANDLE" =>
                        /\ handles'[s] = handles[s] \cup {Handle(op.normalized, TableMode(op.flags))}
                        /\ Found(fs', op.local, TRUE)
                        /\ KindOf(fs', Locate(fs', op.local, TRUE).loc) = "file"
                 /\ answer # "HANDLE" => handles'[s] = handles[s]
                 /\ "O_CREAT" \in op.flags /\ absent /\ dirs.ok => answer = "HANDLE"
                 /\ "O_CREAT" \notin op.flags /\ absent /\ TableMode(op.flags) \in {"rb", "r+b"} =>
                        /\ answer = "PERMISSION_DENIED"
                        /\ ~Found(fs', op.local, TRUE)
                 /\ ~dirs.ok => answer = "PERMISSION_DENIED" /\ fs' = fs]_vars

\* C28: open makes the missing parent directories only when it is a
\* write-create open: an open whose flags ask neither for writing (O_WRONLY,
\* O_RDWR) nor for O_CREAT leaves the filesystem as it was, and so does an
\* open that answers an error status
C28_OpenMakesParentsOnlyOnWriteCreate ==
    [][\A s \in Sessions :
          Act(s) /\ pending[s][1].verb = "open" =>
              /\ pending[s][1].flags \cap {"O_WRONLY", "O_RDWR", "O_CREAT"} = {} => fs' = fs
              /\ lastResult'.status # "HANDLE" => fs' = fs]_vars

\* the session holds handles of all five modes on /a/b, among them the read
\* handle that only the O_CREAT before the open can have given, and a read
\* handle on /b/b/a whose directory was not there
C20_Witness ==
    /\ {h.mode : h \in {g \in handles[1] : g.path = Str(<<sA, sB>>)}} = {"rb", "wb", "ab", "r+b", "a+b"}
    /\ \E h \in handles[1] : h.path = Str(<<sB, sB, sA>>) /\ h.mode = "rb"
    /\ lastResult.verb = "open" /\ lastResult.status = "PERMISSION_DENIED"
    /\ ~Found(fs, AliceHome \o <<sA, sB>>, TRUE)

\* -------------------------------------------------------------------------
\* The start-ups of the processes, each seeding the default admin
\* -------------------------------------------------------------------------

\* the home of the default admin is not made yet
SeedFs == Without(HomeFs, {<<sR, sAdmin>>})

\* no process has started, the store holds no default admin
InitSeed ==
    /\ PathIdle
    /\ fs = SeedFs
    /\ users = CreatedUsers
    /\ listener = "closed"
    /\ startup = [p \in Starters |-> "down"]
    /\ InitSessions

SeedUnchanged ==
    UNCHANGED <<pathVars, connections, transfers, clients, sessVars, meterVars, verbVars,
                lastAuth, histVars, listener, subsystem>>

\* ensure_default_admin, the find_one: the start-up is over when the admin
\* is found
SeedFind(p) ==
    /\ startup[p] = "down"
    /\ startup' = [startup EXCEPT ![p] = IF get_by_username(users, uAdmin) # Nothing
                                         THEN "seeded" ELSE "not_found"]
    /\ UNCHANGED <<fs, users>>
    /\ SeedUnchanged

\* ensure_default_admin, _ensure_home_directory: an exception ends the process
SeedHome(p) ==
    /\ startup[p] = "not_found"
    /\ LET home == ensure_home_directory(fs, sanitize_home_dir(Some(uAdmin), uAdmin))
       IN /\ fs' = home.fs
          /\ startup' = [startup EXCEPT ![p] = IF home.ok THEN "home_made" ELSE "crashed"]
    /\ UNCHANGED users
    /\ SeedUnchanged

\* ensure_default_admin, the insert_one: the unique index on username refuses
\* a second document with DuplicateKeyError, which nothing catches
SeedInsert(p) ==
    /\ startup[p] = "home_made"
    /\ IF uAdmin \in DOMAIN users
       THEN /\ startup' = [startup EXCEPT ![p] = "crashed"]
            /\ UNCHANGED users
       ELSE /\ startup' = [startup EXCEPT ![p] = "seeded"]
            /\ users' = users @@ (uAdmin :> DefaultAdmin(users))
    /\ UNCHANGED fs
    /\ SeedUnchanged

\* the process is started again
Restart(p) ==
    /\ startup[p] \in {"seeded", "crashed"}
    /\ startup' = [startup EXCEPT ![p] = "down"]
    /\ UNCHANGED <<fs, users>>
    /\ SeedUnchanged

NextSeed == \E p \in Starters : SeedFind(p) \/ SeedHome(p) \/ SeedInsert(p) \/ Restart(p)

SpecSeed == InitSeed /\ [][NextSeed]_vars

\* C21: every start-up of the listener and of the admin API completes, a
\* duplicate insert of the default admin being a success, and once a
\* start-up has completed exactly one user with the default admin username
\* is stored, an active admin
C21_SeedingAlwaysSucceeds ==
    /\ \A p \in Starters : startup[p] # "crashed"
    /\ (\E p \in Starters : startup[p] = "seeded") =>
           /\ uAdmin \in DOMAIN users
           /\ users[uAdmin].role = "admin" /\ users[uAdmin].is_active

\* -------------------------------------------------------------------------
\* The administrator creating, updating and deleting users
\* -------------------------------------------------------------------------

\* longest username and longest home_dir the administrator types
MaxName == 1
MaxHome == 2

\* the users stored at most beyond the initial ones, and the directories
\* made at most for their homes
MaxCreated == 1
MaxHomes == 1

\* what the administrator types as home_dir: nothing, or a string
HomeInputs == {Nothing} \cup {Some(h) : h \in StringsUpTo(MaxHome)}

\* the password and the role typed: good ones, or a password too short
CreateInputs ==
    { [password |-> GoodPassword, role |-> "user"],
      [password |-> WrongPassword, role |-> "user"] }

AdminUnchanged ==
    UNCHANGED <<pathVars, connections, transfers, clients, sessVars, meterVars, verbVars,
                lastAuth, histVars, wireVars>>

WithinAdminBounds(store, f) ==
    /\ Cardinality(DOMAIN store) <= Cardinality(DOMAIN InitialUsers) + MaxCreated
    /\ Cardinality(DOMAIN f) <= Cardinality(DOMAIN HomeFs) + MaxHomes

\* UserService.create_user with what the administrator typed
CreateUser ==
    \E username \in StringsUpTo(MaxName), home_dir \in HomeInputs, given \in CreateInputs :
        \E r \in {create_user(users, fs, username, given.password, given.role, home_dir, TRUE)} :
        /\ WithinAdminBounds(r.users, r.fs)
        /\ users' = r.users
        /\ fs' = r.fs
        /\ AdminUnchanged

\* the users the administrator works on: Alice and the ones newly created
Managed(store) == (DOMAIN store \ DOMAIN InitialUsers) \cup ({uAlice} \cap DOMAIN store)

\* UserService.update_user of a stored user, with a home_dir out of homes
UpdateUserWith(homes) ==
    \E username \in Managed(users), home_dir \in homes,
       is_active \in {Nothing, Some(TRUE), Some(FALSE)} :
        \E r \in {update_user(users, fs, username, is_active, home_dir)} :
        /\ WithinAdminBounds(r.users, r.fs)
        /\ users' = r.users
        /\ fs' = r.fs
        /\ AdminUnchanged

UpdateUser == UpdateUserWith(HomeInputs)

\* UserService.delete_user of a stored user
DeleteUser ==
    \E username \in Managed(users) :
        /\ users' = delete_user(users, username)
        /\ UNCHANGED fs
        /\ AdminUnchanged

NextAdmin == CreateUser \/ UpdateUser \/ DeleteUser

SpecAdmin == Init /\ [][NextAdmin]_vars

\* the segments of a stored home_dir
HomeSegments(home_dir) == Split(home_dir)

\* the home_dir is sanitized: no empty segment, no '.', no '..', no drive
\* prefix
Sanitized(home_dir) ==
    /\ \A i \in 1..Len(HomeSegments(home_dir)) : HomeSegments(home_dir)[i] \notin {<<>>, Dot, DotDot}
    /\ ~(Len(home_dir) >= 2 /\ home_dir[2] = ":")
    /\ \A i \in 1..Len(home_dir) : home_dir[i] # "\\"

\* the home_dir joined to the shared root is strictly inside the shared root
StrictlyInside(f, home_dir) ==
    LET target == Realpath(f, HomeJoin(home_dir)) IN
    IsUnder(target, SFTP_ROOT) /\ target # SFTP_ROOT

\* C22: whatever the administrator creates and updates, the home_dir of every
\* stored user has no empty segment, no '.', no '..' and no drive prefix, and
\* joined to the shared root it is a path strictly inside the shared root
C22_StoredHomesAreSanitized ==
    \A u \in DOMAIN users :
        Sanitized(users[u].home_dir) /\ StrictlyInside(fs, users[u].home_dir)

\* the home that a session of the stored user u is given
HomeOf(u) == compute_user_root(fs, users[u].home_dir, u).root

\* C30: the homes of two distinct stored users, as their sessions resolve
\* them, are neither the same directory nor one inside the other, so that no
\* session of one user reaches a file inside the home of the other
C30_HomesNeitherEqualNorNested ==
    \A u, v \in DOMAIN users : u # v => ~IsUnder(HomeOf(u), HomeOf(v))

\* -------------------------------------------------------------------------
\* One session whose system calls the OS may refuse
\* -------------------------------------------------------------------------

DeniedRequests == JailRequests \cup { Req("lstat", Str(<<sA, sA>>), <<>>, {}) }

NextDenied == Check(1, DeniedRequests) \/ Act(1) \/ ActDenied(1)

SpecDenied == InitFS /\ [][NextDenied]_vars

\* C23: a verb whose system call the OS refuses with a permission or I/O
\* error answers PERMISSION_DENIED when it is open and FAILURE when it is any
\* other verb
C23_RefusedCallIsFailure ==
    [][\A s \in Sessions :
          ActDenied(s) =>
              lastResult'.status = IF pending[s][1].verb = "open" THEN "PERMISSION_DENIED"
                                   ELSE "FAILURE"]_vars

\* -------------------------------------------------------------------------
\* Sessions of a user whose home was moved out of the shared root
\* -------------------------------------------------------------------------

\* Alice's home was moved out of the shared root and a link left in its place
MovedHomeFs == [q \in DOMAIN HomeFs \ {r \in DOMAIN HomeFs : IsUnder(r, AliceHome) /\ r # AliceHome} |->
                   IF q = AliceHome THEN LinkNode(Outside) ELSE HomeFs[q]]

\* the home is where the administrator made it, or it was moved
InitHomes == InitServer /\ PathIdle /\ fs \in {HomeFs, MovedHomeFs}

SpecHomes == InitHomes /\ [][Next]_vars

\* the home of the user who authenticated on session s does not resolve to
\* the shared root or a path under it
HomeEscapes(s) ==
    /\ user_doc[s] # Nothing
    /\ LET doc == user_doc[s][1]
           home == Realpath(fs, HomeJoin(sanitize_home_dir(Some(doc.home_dir), doc.username)))
       IN ~IsUnder(home, SFTP_ROOT)

\* no SFTP handler was made for the session and no verb was served
NeverServed(s) ==
    /\ sftp[s] = "none"
    /\ pc[s] # "Serving"
    /\ user_root[s] = <<>>
    /\ pending[s] = Nothing /\ handles[s] = {}
    /\ transfer_log[s] = <<>>

\* C25, as the spec words it: a session whose home escapes the shared root is
\* never served, and its Connection Record, once inserted, is finalized when
\* the session is over
C25_EscapingHomeIsFinalized ==
    \A s \in Sessions :
        HomeEscapes(s) =>
            /\ NeverServed(s)
            /\ Over(s) /\ connection_id[s] # 0 =>
                   /\ ~connections[connection_id[s]].active
                   /\ connections[connection_id[s]].ended_at # 0

\* C25, amended: a session whose home escapes the shared root is never
\* served; when it is over and its Connection Record was inserted,
\* end_connection was called for it once, and the record is finalized unless
\* the store failed that update
C25_EscapingHomeFailsSetup ==
    \A s \in Sessions :
        HomeEscapes(s) =>
            /\ NeverServed(s)
            /\ Over(s) /\ connection_id[s] # 0 =>
                   /\ endCalls[s] = 1
                   /\ ~endFailed[s] =>
                          /\ ~connections[connection_id[s]].active
                          /\ connections[connection_id[s]].ended_at # 0

\* a session whose home escapes, over, with its record inserted and finalized
C25_Witness ==
    \E s \in Sessions :
        /\ HomeEscapes(s)
        /\ pc[s] = "Closed"
        /\ connection_id[s] # 0
        /\ ~connections[connection_id[s]].active

\* -------------------------------------------------------------------------
\* One connection while the administrator updates and deletes its user
\* -------------------------------------------------------------------------

\* the administrator leaves the home as it is or moves it to /r/a
MovedHomes == {Nothing, Some(sA)}

NextManaged ==
    \/ Accept(1) \/ StartServer(1) \/ CheckAuthPassword(1) \/ ChannelRequest(1)
    \/ NoChannel(1) \/ StartConnection(1) \/ AddClient(1) \/ SftpStart(1)
    \/ Check(1, SessionRequests) \/ Act(1) \/ Read(1) \/ Write(1) \/ Close(1)
    \/ SftpEnd(1) \/ JoinSftp(1)
    \/ EndConnectionUpdate(1) \/ EndConnectionInsert(1) \/ RemoveClient(1)
    \/ UpdateUserWith(MovedHomes) \/ DeleteUser

SpecManaged == Init /\ [][NextManaged]_vars

MeterRequests ==
    DeniedRequests \cup { Req("open", Str(<<sA, sA>>), <<>>, RDWR),
                          Req("stat", EtcPasswdEscape, <<>>, {}) }

NextMeter ==
    \/ CanonicalizeVerb(1, {r.path : r \in MeterRequests})
    \/ Check(1, MeterRequests) \/ Act(1) \/ ActDenied(1)
    \/ Read(1) \/ Write(1) \/ Close(1)

SpecMeter == InitFS /\ [][NextMeter]_vars

\* C29: canonicalize, the jail check and the system call of stat, lstat, list,
\* open, remove, rename, mkdir, rmdir and setattr, whatever status they
\* answer, and close leave the counters and the transfer log of every session
\* as they were; a step that changes them is a read or a write of a chunk on
\* a handle of the session
C29_OnlyReadAndWriteMeter ==
    /\ [][\A s \in Sessions :
             \/ CanonicalizeVerb(s, {r.path : r \in MeterRequests})
             \/ Check(s, MeterRequests) \/ Act(s) \/ ActDenied(s) \/ Close(s)
             => UNCHANGED meterVars]_vars
    /\ [][meterVars' # meterVars =>
             \E s \in Sessions : \E h \in handles[s] :
                 ReadBytes(s, h, MaxChunk) \/ WriteBytes(s, h, MaxChunk)]_vars

\* after a chunk was read and its handle closed, a verb has answered an error
\* status, and the log still holds the one download
C29_Witness ==
    /\ Len(transfer_log[1]) = 1
    /\ transfer_totals[1] = [upload |-> 0, download |-> MaxChunk]
    /\ handles[1] = {}
    /\ lastResult.verb = "rmdir" /\ lastResult.status = "FAILURE"

\* -------------------------------------------------------------------------
\* Claims about the path functions (checked under SpecPath)
\* -------------------------------------------------------------------------

\* no prefix of host path p is a symbolic link in f
NoLinkOn(f, p) == \A k \in 1..Len(p) : ~IsLink(f, SubSeq(p, 1, k))

\* C2: whenever _resolve_local_path succeeds, the host path it returns is the
\* home or lies under it, and it is free of symbolic links in the filesystem
\* it was resolved in, so that it names a place inside the home; it fails with
\* PathEscape exactly when the virtual path, joined to the home and with its
\* symbolic links followed, leaves the home.
C2_ResolveStaysInHome ==
    resolved # Nothing =>
        LET r == resolved[1]
            joined == AliceHome \o PathParts(Strip(canonicalize(vpath)))
        IN /\ r.ok => /\ IsUnder(r.local_path, AliceHome)
                      /\ NoLinkOn(fs, r.local_path)
                      /\ IsUnder(Realpath(fs, r.local_path), AliceHome)
           /\ ~r.ok => /\ ~NoLinkOn(fs, joined)
                       /\ ~IsUnder(Realpath(fs, joined), AliceHome)

\* C2's case: '/a/a' is asked where a is a link to a directory outside the
\* home, and the resolution is refused
C2_Witness ==
    /\ vpath = <<"/", "a", "/", "a">>
    /\ IsLink(fs, <<sR, sAlice, sA>>)
    /\ fs[<<sR, sAlice, sA>>].target = Outside
    /\ resolved # Nothing
    /\ ~resolved[1].ok

\* C7: canonicalize(canonicalize(p)) = canonicalize(p) for every input p.
C7_CanonicalizeIdempotent ==
    canonTwice # Nothing => canonTwice = canonOnce

\* the segments of a canonical path c (c without its leading '/')
SegmentsOf(c) == IF c = <<"/">> THEN <<>> ELSE Split(Tail(c))

IsCanonicalForm(c) ==
    /\ c # <<>>
    /\ Head(c) = "/"
    /\ \A i \in 1..Len(c) : c[i] # "\\"
    /\ \A i \in 1..Len(SegmentsOf(c)) : SegmentsOf(c)[i] \notin {<<>>, Dot, DotDot}

\* the canonical path one level up, '/' staying '/'
UpFrom(c) ==
    LET segs == SegmentsOf(c) IN
    IF Len(segs) <= 1 THEN <<"/">>
    ELSE <<"/">> \o Join(SubSeq(segs, 1, Len(segs) - 1))

\* the inputs and outputs of scenario S4, and '/../../etc/passwd'
S4Examples ==
    /\ canonicalize(<<>>) = <<"/">>
    /\ canonicalize(<<".">>) = <<"/">>
    /\ canonicalize(<<"/", "a", "/", ".", "/", "b">>) = <<"/", "a", "/", "b">>
    /\ canonicalize(<<"/", "a", "/", "b", "/", ".", ".", "/", "c">>) = <<"/", "a", "/", "c">>
    /\ canonicalize(<<"\\", "a", "\\", "b">>) = <<"/", "a", "/", "b">>
    /\ canonicalize(<<"C", ":", "\\", "a">>) = <<"/", "a">>
    /\ canonicalize(<<"/", ".", ".", "/", ".", ".">>) = <<"/">>

\* C8: for every input canonicalize returns a '/'-prefixed path without
\* backslash whose segments are never empty, '.' or '..'; an empty or '.'
\* input gives '/'; backslashes count as '/'; a trailing separator or '.'
\* segment changes nothing; a trailing '..' segment pops the last segment of
\* the result if there is one and is dropped at '/'; the examples of S4 hold.
C8_CanonicalForm ==
    canonOnce # Nothing =>
        LET c == canonOnce[1] IN
        /\ IsCanonicalForm(c)
        /\ (vpath = <<>> \/ vpath = Dot) => c = <<"/">>
        /\ canonicalize(ReplaceBackslash(vpath)) = c
        /\ canonicalize(vpath \o <<"/">>) = c
        /\ canonicalize(vpath \o <<"/", ".">>) = c
        /\ canonicalize(vpath \o <<"/", ".", ".">>) = UpFrom(c)
        /\ canonicalize(vpath \o <<"\\", ".", ".">>) = UpFrom(c)
        /\ S4Examples

\* C8's case: '..\a' (a backslash, a '..' with nothing to pop) was canonicalized
C8_Witness ==
    /\ vpath = <<".", ".", "\\", "a">>
    /\ canonOnce = Some(<<"/", "a">>)

====
